---- MODULE Spec2Model ----
(***************************************************************************)
(* Model of the workflow execution engine (class WorkflowRunner, runner.js) *)
(* of automation-runner: entry selection, the pass loop of executeWorkflow, *)
(* dependency checking, input gathering and the per-node failure policy.    *)
(*                                                                          *)
(* One behaviour of Spec, SpecSlots and SpecIds is one call of              *)
(* WorkflowRunner.execute on one workflow. The workflow's connections are   *)
(* chosen in Init; what each node executor returns or throws is chosen when *)
(* the engine invokes it.                                                   *)
(*                                                                          *)
(* SpecPolling models the polling supervisor (class BackgroundService) and  *)
(* the orchestration route POST /api/automations/run for one (user,         *)
(* automation) pair: startPolling, the ticks of pollWorkflow, the runs, the *)
(* googleDriveTrigger executor and the pair's user_automations record.      *)
(***************************************************************************)
EXTENDS Integers, Sequences, FiniteSets, TLC

VARIABLES
    connections,    \* workflow.connections, as the list of connection records in traversal order
    ctxNodes,       \* executionContext.nodes: the stored output of every key it has
    errors,         \* executionContext.errors
    executedNodes,  \* the Set executedNodes of executeWorkflow
    hasChanges,     \* hasChanges of executeWorkflow
    iteration,      \* iteration of executeWorkflow
    pc,             \* position inside execute / executeWorkflow
    idx,            \* index of the for loop the engine is in
    result,         \* the object returned by execute (NoResultYet before it returns)
    calls,          \* node name -> number of executor.execute invocations (observer)
    inputOf,        \* inputData of the last executor invocation of the nodes invoked (observer)
    writes,         \* node key -> number of assignments to executionContext.nodes[key] (observer)
    skipped,        \* names of the nodes handled by the empty-input skip (observer)
    threw,          \* node name -> message of the Error the node's executor threw (observer)
    now,            \* the clock (Date.now()), in minutes
    drive,          \* the watched Drive folder: id of every file in it -> its createdTime
    rawSupported,   \* whether the Supabase client of the build has a function `raw`
    db,             \* the user_automations record of the pair
    pollingIntervals, \* BackgroundService.pollingIntervals: <<>> or <<timer>> of the pair's key
    timers,         \* the interval timers ever installed: whether live, and when due next
    lastPollTimes,  \* BackgroundService.lastPollTimes: <<>> or <<time>> of the pair's key
    processedFiles, \* BackgroundService.processedFiles: <<>> or <<the Set>> of the pair's key
    starter,        \* the call of startPolling: its position and what it loaded
    ticks,          \* the calls of pollWorkflow, in the order they were made
    runs,           \* the requests POST /api/automations/run, in the order they arrived
    stops,          \* the calls of stopPolling, in the order they were made, and the call of stopAll
    resume,         \* the resume loop of the app.listen callback
    invocation,     \* one invocation that loads the pair's tokens: run, schedule or startPolling
    batch,          \* the splitInBatches executor on one execution context
    injection,      \* one call of injectParameters
    preprocessing,  \* one call of WorkflowPreprocessor.processNode
    evaluation,     \* one call of evaluateExpression
    chain,          \* execute on a workflow that is one chain of nodes
    job,            \* one job of the queue 'workflow-execution'
    mapper,         \* one TokenMapper and one call of mapTokenName
    service,        \* one call of WorkflowService.executeWorkflow
    second,         \* a second call of startPolling for the pair
    refresh         \* one call of refreshTokenIfNeeded, with the tokens of the record

engineVars == <<connections, ctxNodes, errors, executedNodes, hasChanges, iteration,
                pc, idx, result, calls, inputOf, writes, skipped, threw>>

pollVars == <<now, drive, rawSupported, db, pollingIntervals, timers, lastPollTimes,
              processedFiles, starter, ticks, runs, stops>>

auxVars == <<chain, job, mapper, service, second, refresh>>

utilVars == <<resume, invocation, batch, injection, preprocessing, evaluation, auxVars>>

vars == <<engineVars, pollVars, utilVars>>

-----------------------------------------------------------------------------
(* Bounds *)

\* Largest number of connection records in a workflow.
MaxEdges == 2

\* The clock of the polling model runs from 0 to MaxTime.
MaxTime == 2

\* The firings of interval timers, and the orchestration run requests, of one behaviour.
MaxTicks == 2
MaxRuns == 1

\* The requests POST /api/automations/stop-polling of one behaviour.
MaxStops == 1

\* The user_automations records that the service finds at startup.
MaxRecords == 3

\* The items given to splitInBatches and the batch sizes of its node.
MaxItems == 5
MaxBatchSize == 3

\* The pieces of text that a string of a workflow template is put together of.
MaxPieces == 3

\* The keys of the path of an interpolation.
MaxDepth == 2

-----------------------------------------------------------------------------
(* The workflow: nodes, connection records *)

\* obj[key] = value: the object with the key added or overwritten.
Put(obj, key, value) ==
    [k \in DOMAIN obj \cup {key} |-> IF k = key THEN value ELSE obj[k]]

EmptyObject == [k \in {} |-> <<>>]

StickyNoteType == "n8n-nodes-base.stickyNote"
ManualTriggerType == "n8n-nodes-base.manualTrigger"

\* workflow.nodes: a trigger, a node that continues on error, a node that
\* stops on error (the default) and a UI-only sticky note.
WorkflowNodes ==
    << [name |-> "T", id |-> "id_T", type |-> "n8n-nodes-base.scheduleTrigger", onError |-> "stop"],
       [name |-> "A", id |-> "id_A", type |-> "n8n-nodes-base.code", onError |-> "continueErrorOutput"],
       [name |-> "B", id |-> "id_B", type |-> "n8n-nodes-base.httpRequest", onError |-> "stop"],
       [name |-> "S", id |-> "id_S", type |-> StickyNoteType, onError |-> "stop"] >>

NodeIdx   == 1..Len(WorkflowNodes)
NodeNames == {WorkflowNodes[i].name : i \in NodeIdx}
NodeIds   == {WorkflowNodes[i].id : i \in NodeIdx}
NodeKeys  == NodeNames \cup NodeIds

\* The node types of WorkflowNodes whose name contains 'Trigger' or 'webhook'.
TriggerLikeTypes == {"n8n-nodes-base.scheduleTrigger"}

\* node.type.includes('Trigger') || node.type.includes('webhook') || node.type === manualTrigger
isTriggerOrWebhook(node) ==
    node.type \in TriggerLikeTypes \/ node.type = ManualTriggerType

\* The channels of the model, in the order the engine visits them inside one
\* connections entry: main first, then the special types in list order.
specialConnectionTypes == <<"ai_tool", "ai_memory">>
ChannelOrder == <<"main">> \o specialConnectionTypes
Channels == {ChannelOrder[i] : i \in 1..Len(ChannelOrder)}

ChannelRank(c) == CHOOSE i \in 1..Len(ChannelOrder) : ChannelOrder[i] = c

\* Nodes that can carry connections (a sticky note has no connectors).
WiredIdx == {i \in NodeIdx : WorkflowNodes[i].type # StickyNoteType}
WiredNames == {WorkflowNodes[i].name : i \in WiredIdx}
WiredRefs == WiredNames \cup {WorkflowNodes[i].id : i \in WiredIdx}

RefOrder == <<"T", "id_T", "A", "id_A", "B", "id_B", "S", "id_S">>
RefRank(r) == CHOOSE i \in 1..Len(RefOrder) : RefOrder[i] = r

\* One connection record {node: ...} of connections[src][chan][slot].
ConnectionRecords == [src : WiredNames, chan : Channels, node : WiredRefs]

\* A connections object is listed as its records in traversal order: the
\* records of one source key are adjacent, main before the special types,
\* and the records of one source and channel are listed once, in slot order.
WellFormedConnections(c) ==
    /\ \A i, j, k \in 1..Len(c) :
          (i < j /\ j < k /\ c[i].src = c[k].src) => c[j].src = c[i].src
    /\ \A i, j \in 1..Len(c) :
          (i < j /\ c[i].src = c[j].src) =>
              \/ ChannelRank(c[i].chan) < ChannelRank(c[j].chan)
              \/ /\ c[i].chan = c[j].chan
                 /\ RefRank(c[i].node) < RefRank(c[j].node)

ConnectionsUniverse ==
    {c \in UNION {[1..n -> ConnectionRecords] : n \in 0..MaxEdges} :
        WellFormedConnections(c)}

\* Object.entries(connections): the source keys in insertion order.
RECURSIVE KeysOf(_)
KeysOf(c) ==
    IF c = <<>> THEN <<>>
    ELSE LET rest == KeysOf(SubSeq(c, 1, Len(c) - 1))
             k == c[Len(c)].src
         IN IF \E i \in 1..Len(rest) : rest[i] = k THEN rest ELSE Append(rest, k)

ConnectionKeys == KeysOf(connections)

HasKey(k) == \E i \in 1..Len(connections) : connections[i].src = k

-----------------------------------------------------------------------------
(* Items and executor outcomes *)

\* formattedInitialData: [{ json: initialData }]
InitialItem == [json |-> [kind |-> "initial", value |-> "initialData"]]
formattedInitialData == <<InitialItem>>

\* An item produced by the executor of node n.
DataItem(n) == [json |-> [kind |-> "data", value |-> n]]

\* { json: { error: error.message } }
ErrorItem(m) == [json |-> [kind |-> "error", value |-> m]]

CredentialMessage == "OPENAI_API_KEY not provided"
FailureMessage == "Request failed with status code 500"
Messages == {CredentialMessage, FailureMessage}

\* Variant of isApiKeyError whose pattern matches no message.
isApiKeyError_Never(m) == FALSE

\* error.message.includes('API_KEY' | 'API key' | 'not provided' | 'access token')
isApiKeyError(m) == m = CredentialMessage

NoMessage == ""

\* What executor.execute(node, inputData, ctx) can do: return no items,
\* return items, or throw an Error with one of the messages.
Outcomes(node) ==
    {[kind |-> "return", items |-> <<>>, message |-> NoMessage],
     [kind |-> "return", items |-> <<DataItem(node.name)>>, message |-> NoMessage]}
    \cup {[kind |-> "throw", items |-> <<>>, message |-> m] : m \in Messages}

-----------------------------------------------------------------------------
(* Pure helpers of WorkflowRunner *)

\* workflow.nodes.find(n => n.name === key || n.id === key): index, or 0.
FindByNameOrId(key) ==
    IF \E i \in NodeIdx : WorkflowNodes[i].name = key \/ WorkflowNodes[i].id = key
    THEN CHOOSE i \in NodeIdx :
            /\ WorkflowNodes[i].name = key \/ WorkflowNodes[i].id = key
            /\ \A j \in NodeIdx :
                  (WorkflowNodes[j].name = key \/ WorkflowNodes[j].id = key) => i <= j
    ELSE 0

\* workflow.nodes.find(n => n.name === key): index, or 0.
FindByName(key) ==
    IF \E i \in NodeIdx : WorkflowNodes[i].name = key
    THEN CHOOSE i \in NodeIdx :
            /\ WorkflowNodes[i].name = key
            /\ \A j \in NodeIdx : WorkflowNodes[j].name = key => i <= j
    ELSE 0

\* connection.node === nodeName || (node && (connection.node === node.id || connection.node === node.name))
MatchesNode(rec, nodeName) ==
    LET n == FindByNameOrId(nodeName)
    IN \/ rec.node = nodeName
       \/ /\ n # 0
          /\ rec.node = WorkflowNodes[n].id \/ rec.node = WorkflowNodes[n].name

\* findEntryNodes: the indices of the entry nodes, in workflow.nodes order.
connectedNodeIds == {connections[i].node : i \in 1..Len(connections)}

connectedNodeNames ==
    UNION {LET t == FindByNameOrId(connections[i].node)
           IN IF t = 0 THEN {} ELSE {WorkflowNodes[t].name, WorkflowNodes[t].id}
           : i \in 1..Len(connections)}

toolSourceNodes ==
    {connections[i].src : i \in {j \in 1..Len(connections) : connections[j].chan = "ai_tool"}}

\* Variant of IsEntryNode without the filter on ai_tool source nodes.
IsEntryNode_ToolSourcesKept(i) ==
    LET node == WorkflowNodes[i]
    IN /\ node.type # StickyNoteType
       /\ node.name \notin connectedNodeIds
       /\ node.id \notin connectedNodeIds
       /\ node.name \notin connectedNodeNames
       /\ node.id \notin connectedNodeNames

IsEntryNode(i) ==
    LET node == WorkflowNodes[i]
    IN /\ node.type # StickyNoteType
       /\ ~(node.name \in toolSourceNodes \/ node.id \in toolSourceNodes)
       /\ node.name \notin connectedNodeIds
       /\ node.id \notin connectedNodeIds
       /\ node.name \notin connectedNodeNames
       /\ node.id \notin connectedNodeNames

RECURSIVE EntryNodesFrom(_)
EntryNodesFrom(i) ==
    IF i > Len(WorkflowNodes) THEN <<>>
    ELSE (IF IsEntryNode(i) THEN <<i>> ELSE <<>>) \o EntryNodesFrom(i + 1)

findEntryNodes == EntryNodesFrom(1)

\* Variant of canExecuteNode that checks the main connections only.
canExecuteNode_MainOnly(nodeName, executed) ==
    \A i \in 1..Len(connections) :
        (connections[i].chan = "main" /\ MatchesNode(connections[i], nodeName))
            => connections[i].src \in executed

\* canExecuteNode(nodeName, workflow, executedNodes)
canExecuteNode(nodeName, executed) ==
    \A i \in 1..Len(connections) :
        MatchesNode(connections[i], nodeName) => connections[i].src \in executed

\* Variant of GatherInput that takes the output of every record's source,
\* whether or not the record leads to the node.
RECURSIVE GatherInput_Unmatched(_, _, _)
GatherInput_Unmatched(i, nodeName, outputs) ==
    IF i > Len(connections) THEN <<>>
    ELSE LET rec == connections[i]
             part == IF rec.src \in DOMAIN outputs /\ Len(outputs[rec.src]) > 0
                     THEN outputs[rec.src] ELSE <<>>
         IN part \o GatherInput_Unmatched(i + 1, nodeName, outputs)

\* getInputData(nodeName, workflow): the stored non-empty outputs of the
\* sources of the matching records, main and special alike, in traversal order.
RECURSIVE GatherInput(_, _, _)
GatherInput(i, nodeName, outputs) ==
    IF i > Len(connections) THEN <<>>
    ELSE LET rec == connections[i]
             part == IF /\ MatchesNode(rec, nodeName)
                        /\ rec.src \in DOMAIN outputs
                        /\ Len(outputs[rec.src]) > 0
                     THEN outputs[rec.src] ELSE <<>>
         IN part \o GatherInput(i + 1, nodeName, outputs)

getInputData(nodeName) == GatherInput(1, nodeName, ctxNodes)

\* Variant of executeNode that stores a returned output under node.id only.
executeNode_StoreById(node, out) ==
    IF out.kind = "return"
    THEN [nodes  |-> Put(ctxNodes, node.id, out.items),
          errors |-> errors,
          thrown |-> NoMessage,
          wrote  |-> {node.id}]
    ELSE IF node.onError = "continueErrorOutput" \/ isApiKeyError(out.message)
    THEN [nodes  |-> Put(ctxNodes, node.name, <<ErrorItem(out.message)>>),
          errors |-> Append(errors, [node |-> node.name, error |-> out.message]),
          thrown |-> NoMessage,
          wrote  |-> {node.name}]
    ELSE [nodes  |-> ctxNodes,
          errors |-> errors,
          thrown |-> out.message,
          wrote  |-> {}]

\* Variant of executeNode that continues after every error.
executeNode_ContinueAlways(node, out) ==
    IF out.kind = "return"
    THEN [nodes  |-> Put(Put(ctxNodes, node.name, out.items), node.id, out.items),
          errors |-> errors,
          thrown |-> NoMessage,
          wrote  |-> {node.name, node.id}]
    ELSE [nodes  |-> Put(ctxNodes, node.name, <<ErrorItem(out.message)>>),
          errors |-> Append(errors, [node |-> node.name, error |-> out.message]),
          thrown |-> NoMessage,
          wrote  |-> {node.name}]

\* executeNode(node, inputData) when the executor does out: the new
\* executionContext.nodes and errors, and the message of the error that
\* executeNode rethrows (NoMessage when it returns).
executeNode(node, out) ==
    IF out.kind = "return"
    THEN [nodes  |-> Put(Put(ctxNodes, node.name, out.items), node.id, out.items),
          errors |-> errors,
          thrown |-> NoMessage,
          wrote  |-> {node.name, node.id}]
    ELSE IF node.onError = "continueErrorOutput" \/ isApiKeyError(out.message)
    THEN [nodes  |-> Put(ctxNodes, node.name, <<ErrorItem(out.message)>>),
          errors |-> Append(errors, [node |-> node.name, error |-> out.message]),
          thrown |-> NoMessage,
          wrote  |-> {node.name}]
    ELSE [nodes  |-> ctxNodes,
          errors |-> errors,
          thrown |-> out.message,
          wrote  |-> {}]

\* Variant of InitialExecuted that starts from an empty set.
InitialExecuted_Empty(outputs) == {}

\* new Set(Object.keys(this.executionContext.nodes))
InitialExecuted(outputs) == DOMAIN outputs

\* Variant of ShouldSkip with the trigger test inverted.
ShouldSkip_Inverted(node, inputData) == isTriggerOrWebhook(node) /\ Len(inputData) = 0

\* !isTriggerOrWebhook && inputData.length === 0
ShouldSkip(node, inputData) == ~isTriggerOrWebhook(node) /\ Len(inputData) = 0

CountWrites(keys) == [k \in NodeKeys |-> IF k \in keys THEN writes[k] + 1 ELSE writes[k]]

NoEntryMessage == "No entry nodes found in workflow"
StallMessage == "Workflow execution exceeded maximum iterations"

\* const MAX_ITERATIONS = 1000
MAX_ITERATIONS == 1000

\* The catch block of execute: { success: false, error, outputs, errors: [...errors, error.message] }
Failure(message, outputs, errs) ==
    [success |-> FALSE, error |-> message, outputs |-> outputs,
     errors |-> Append(errs, [node |-> "", error |-> message])]

\* The normal return of execute.
Success(outputs, errs) ==
    [success |-> Len(errs) = 0, error |-> NoMessage, outputs |-> outputs, errors |-> errs]

NoResultYet == [success |-> FALSE, error |-> NoMessage, outputs |-> EmptyObject, errors |-> <<>>]

-----------------------------------------------------------------------------
(* The polling supervisor and the orchestration run: data *)

\* Time is counted in minutes.
\* The look-back of the trigger without a cursor: Date.now() - 60000.
PollWindow == 1
\* The period of the interval timer: intervalMs = 60000.
intervalMs == 1
\* The look-back of an orchestration run without a cursor: Date.now() - 86400000.
DayWindow == 1440

\* The PDF files uploaded to the watched folder, in upload order.
FileOrder == <<"f1", "f2">>

\* A value that may be missing (undefined or null): <<>>, or <<v>>.
Absent == <<>>
Present(v) == <<v>>

\* automation_data of a record that never ran, and that record.
EmptyData == [lastPollTime |-> Absent, processedFiles |-> {}]
InitialRecord ==
    [is_active |-> FALSE, automation_data |-> EmptyData, run_count |-> 0,
     token_expiry |-> Absent]

\* .update({automation_data, run_count}) applied to the record: run_count is
\* set to a value, or incremented in the database.
ApplyUpdate(rec, u) ==
    [rec EXCEPT !.automation_data = u.automation_data,
                !.run_count = IF u.run_count.op = "add" THEN @ + u.run_count.value
                              ELSE u.run_count.value]

\* The fields of a new WorkflowRunner that execute reads: pollWorkflow
\* assigns runner.executionContext only, the orchestration run assigns
\* runner.lastPollTime and runner.processedFiles.
TickRunner == [lastPollTime |-> Absent, processedFiles |-> Absent]
RunRunner(lastPollTime, files) ==
    [lastPollTime |-> Present(lastPollTime), processedFiles |-> Present(files)]

\* The executionContext that execute builds:
\* lastPollTime: this.lastPollTime || null, processedFiles: this.processedFiles || new Set().
ExecutionContext(runner) ==
    [lastPollTime |-> runner.lastPollTime,
     processedFiles |-> IF runner.processedFiles = Absent THEN {}
                        ELSE runner.processedFiles[1]]

\* googleDriveTrigger.execute at time t: the ids of the files created after
\* lastCheckTime that are not in the processedFiles of the context.
lastCheckTime(ctx, t) ==
    IF ctx.lastPollTime = Absent THEN t - PollWindow ELSE ctx.lastPollTime[1]

googleDriveTrigger(ctx, t) ==
    {f \in DOMAIN drive : drive[f] > lastCheckTime(ctx, t) /\ f \notin ctx.processedFiles}

\* How a call of execute on the pair's workflow can end: normally, or aborted
\* by an error thrown in the trigger node or in a node after it.
EngineOutcomes == {"success", "abortInTrigger", "abortAfterTrigger"}

\* message of the response of the run route for an empty trigger output
NoNewFilesMessage == "No new files to process"

\* runner.execute with the trigger polled at time t: the context the trigger
\* read, result.outputs[trigger] as the set of emitted ids, result.success.
EngineRun(runner, outcome, t) ==
    LET ctx == ExecutionContext(runner)
    IN [ctx |-> ctx,
        out |-> IF outcome = "abortInTrigger" THEN {} ELSE googleDriveTrigger(ctx, t),
        success |-> outcome = "success"]

\* No call of stopPolling and none of stopAll.
NoStops == [calls |-> <<>>, stopAll |-> "idle"]

\* The supervisor before startPolling, no tick, no run, an empty folder.
SupervisorStart ==
    /\ now = 0
    /\ drive = EmptyObject
    /\ pollingIntervals = Absent
    /\ timers = <<>>
    /\ lastPollTimes = Absent
    /\ processedFiles = Absent
    /\ starter = [pc |-> "idle", data |-> EmptyData, tokenExpiry |-> Absent,
                  isExpired |-> FALSE]
    /\ ticks = <<>>
    /\ runs = <<>>
    /\ stops = NoStops

PollingStart ==
    /\ db = InitialRecord
    /\ SupervisorStart

PollingIdle ==
    /\ rawSupported = TRUE
    /\ PollingStart

\* No call of what the specifications of the chain, the queue, the token
\* mapper, the workflow service, the overlapping starts and the token refresh
\* model.
AuxIdle ==
    /\ chain = Absent
    /\ job = Absent
    /\ mapper = Absent
    /\ service = Absent
    /\ second = Absent
    /\ refresh = Absent

\* No call of the helpers that the other specifications model.
UtilIdle ==
    /\ AuxIdle
    /\ resume = Absent
    /\ invocation = Absent
    /\ batch = Absent
    /\ injection = Absent
    /\ preprocessing = Absent
    /\ evaluation = Absent

-----------------------------------------------------------------------------
(* Initial state: executionContext as execute sets it up *)

InitContext ==
    /\ ctxNodes = EmptyObject
    /\ errors = <<>>
    /\ executedNodes = {}
    /\ hasChanges = FALSE
    /\ iteration = 0
    /\ pc = "start"
    /\ idx = 0
    /\ result = NoResultYet
    /\ calls = [n \in NodeNames |-> 0]
    /\ inputOf = EmptyObject
    /\ writes = [k \in NodeKeys |-> 0]
    /\ skipped = {}
    /\ threw = [n \in NodeNames |-> NoMessage]

Init ==
    /\ connections \in ConnectionsUniverse
    /\ InitContext
    /\ PollingIdle
    /\ UtilIdle

-----------------------------------------------------------------------------
(* execute *)

\* execute up to the for loop over the entry nodes.
Execute ==
    /\ pc = "start"
    /\ UNCHANGED <<pollVars, utilVars>>
    /\ IF Len(findEntryNodes) = 0
       THEN /\ pc' = "returned"
            /\ result' = Failure(NoEntryMessage, ctxNodes, errors)
            /\ idx' = idx
       ELSE /\ pc' = "entries"
            /\ idx' = 1
            /\ result' = result
    /\ UNCHANGED <<connections, ctxNodes, errors, executedNodes, hasChanges,
                   iteration, calls, inputOf, writes, skipped, threw>>

\* One iteration of `for (const entryNode of entryNodes)`; after the last
\* one, the start of executeWorkflow.
ExecuteEntry ==
    /\ pc = "entries"
    /\ UNCHANGED <<pollVars, utilVars>>
    /\ LET node == WorkflowNodes[findEntryNodes[idx]]
       IN \E out \in Outcomes(node) :
            LET r == executeNode(node, out)
            IN /\ calls' = [calls EXCEPT ![node.name] = @ + 1]
               /\ inputOf' = Put(inputOf, node.name, formattedInitialData)
               /\ threw' = [threw EXCEPT ![node.name] = out.message]
               /\ ctxNodes' = r.nodes
               /\ errors' = r.errors
               /\ writes' = CountWrites(r.wrote)
               /\ IF r.thrown # NoMessage
                  THEN /\ pc' = "returned"
                       /\ result' = Failure(r.thrown, r.nodes, r.errors)
                       /\ UNCHANGED <<idx, executedNodes, hasChanges>>
                  ELSE IF idx < Len(findEntryNodes)
                  THEN /\ idx' = idx + 1
                       /\ UNCHANGED <<pc, result, executedNodes, hasChanges>>
                  ELSE /\ pc' = "while"
                       /\ executedNodes' = InitialExecuted(r.nodes)
                       /\ hasChanges' = TRUE
                       /\ UNCHANGED <<idx, result>>
    /\ UNCHANGED <<connections, iteration, skipped>>

-----------------------------------------------------------------------------
(* executeWorkflow *)

\* The head of `while (hasChanges)`, with the iteration limit.
WhileHead ==
    /\ pc = "while"
    /\ UNCHANGED <<pollVars, utilVars>>
    /\ IF ~hasChanges
       THEN /\ pc' = "returned"
            /\ result' = Success(ctxNodes, errors)
            /\ UNCHANGED <<hasChanges, iteration, idx>>
       ELSE /\ hasChanges' = FALSE
            /\ iteration' = iteration + 1
            /\ IF iteration + 1 > MAX_ITERATIONS
               THEN /\ pc' = "returned"
                    /\ result' = Failure(StallMessage, ctxNodes, errors)
                    /\ idx' = idx
               ELSE /\ pc' = IF Len(ConnectionKeys) > 0 THEN "loop1" ELSE "loop2"
                    /\ idx' = 1
                    /\ result' = result
    /\ UNCHANGED <<connections, ctxNodes, errors, executedNodes, calls, inputOf,
                   writes, skipped, threw>>

\* The part of the two for loops after canExecute holds for node n: the
\* empty-input skip, or executeNode and marking; marked is what the loop adds
\* to executedNodes; (nextPc, nextIdx) is the position of the next iteration.
RunOrSkip(n, nodeName, marked, nextPc, nextIdx) ==
    LET node == WorkflowNodes[n]
        inputData == getInputData(nodeName)
    IN IF ShouldSkip(node, inputData)
       THEN /\ ctxNodes' = Put(Put(ctxNodes, nodeName, <<>>), node.id, <<>>)
            /\ writes' = CountWrites({nodeName, node.id})
            /\ skipped' = skipped \cup {node.name}
            /\ executedNodes' = executedNodes \cup marked
            /\ hasChanges' = TRUE
            /\ pc' = nextPc
            /\ idx' = nextIdx
            /\ UNCHANGED <<errors, result, calls, inputOf, threw>>
       ELSE \E out \in Outcomes(node) :
            LET r == executeNode(node, out)
            IN /\ calls' = [calls EXCEPT ![node.name] = @ + 1]
               /\ inputOf' = Put(inputOf, node.name, inputData)
               /\ threw' = [threw EXCEPT ![node.name] = out.message]
               /\ ctxNodes' = r.nodes
               /\ errors' = r.errors
               /\ writes' = CountWrites(r.wrote)
               /\ skipped' = skipped
               /\ IF r.thrown # NoMessage
                  THEN /\ pc' = "returned"
                       /\ result' = Failure(r.thrown, r.nodes, r.errors)
                       /\ UNCHANGED <<idx, executedNodes, hasChanges>>
                  ELSE /\ executedNodes' = executedNodes \cup marked
                       /\ hasChanges' = TRUE
                       /\ pc' = nextPc
                       /\ idx' = nextIdx
                       /\ result' = result

Continue(nextPc, nextIdx) ==
    /\ pc' = nextPc
    /\ idx' = nextIdx
    /\ UNCHANGED <<ctxNodes, errors, executedNodes, hasChanges, result, calls,
                   inputOf, writes, skipped, threw>>

\* One iteration of `for (const [nodeName, nodeConnections] of Object.entries(connections))`.
SourceLoop ==
    /\ pc = "loop1"
    /\ UNCHANGED <<pollVars, utilVars>>
    /\ LET nodeName == ConnectionKeys[idx]
           n == FindByName(nodeName)
           nextPc == IF idx < Len(ConnectionKeys) THEN "loop1" ELSE "loop2"
           nextIdx == IF idx < Len(ConnectionKeys) THEN idx + 1 ELSE 1
       IN IF /\ nodeName \notin executedNodes
             /\ canExecuteNode(nodeName, executedNodes)
             /\ n # 0
          THEN RunOrSkip(n, nodeName, {nodeName}, nextPc, nextIdx)
          ELSE Continue(nextPc, nextIdx)
    /\ UNCHANGED <<connections, iteration>>

\* One iteration of `for (const node of workflow.nodes)`.
SinkLoop ==
    /\ pc = "loop2"
    /\ UNCHANGED <<pollVars, utilVars>>
    /\ LET node == WorkflowNodes[idx]
           nodeName == node.name
           nextPc == IF idx < Len(WorkflowNodes) THEN "loop2" ELSE "while"
           nextIdx == IF idx < Len(WorkflowNodes) THEN idx + 1 ELSE idx
       IN IF /\ ~(\/ nodeName \in executedNodes
                  \/ node.id \in executedNodes
                  \/ node.type = StickyNoteType)
             /\ ~(HasKey(nodeName) \/ HasKey(node.id))
             /\ canExecuteNode(nodeName, executedNodes)
          THEN RunOrSkip(idx, nodeName, {nodeName, node.id}, nextPc, nextIdx)
          ELSE Continue(nextPc, nextIdx)
    /\ UNCHANGED <<connections, iteration>>

Next ==
    \/ Execute
    \/ ExecuteEntry
    \/ WhileHead
    \/ SourceLoop
    \/ SinkLoop

Spec == Init /\ [][Next]_vars

-----------------------------------------------------------------------------
(* The polling supervisor: startPolling, the interval timer, pollWorkflow *)

\* pollWorkflow up to `await runner.execute(...)`: what it read from the maps
\* of the supervisor (held) and put into runner.executionContext, and the
\* expiry of the access token in the tokens object startPolling built.
NewTick(kind) ==
    [kind |-> kind, pc |-> "running",
     held |-> [lastPollTime |-> lastPollTimes,
               processedFiles |-> IF processedFiles = Absent THEN {}
                                  ELSE processedFiles[1]],
     ctx |-> EmptyData, polledAt |-> Absent, seen |-> {}, out |-> {},
     success |-> FALSE, outcome |-> "none", newPollTime |-> Absent,
     update |-> Absent, persisted |-> FALSE, threw |-> FALSE, tokenExpiry |-> starter.tokenExpiry]

TimerTicks == {i \in 1..Len(ticks) : ticks[i].kind = "timer"}

\* const isExpired = tokenExpiry && tokenExpiry < new Date()
isExpired(tokenExpiry, t) == tokenExpiry # Absent /\ tokenExpiry[1] < t

\* startPolling up to the first await: the registry lookup and the load of
\* the user_automations record with its tokens.
StartPolling ==
    /\ starter.pc = "idle"
    /\ IF pollingIntervals # Absent
       THEN starter' = [starter EXCEPT !.pc = "returned"]
       ELSE starter' = [pc |-> "loaded", data |-> db.automation_data,
                        tokenExpiry |-> db.token_expiry,
                        isExpired |-> isExpired(db.token_expiry, now)]
    /\ UNCHANGED <<now, drive, rawSupported, db, pollingIntervals, timers,
                   lastPollTimes, processedFiles, ticks, runs>>
    /\ UNCHANGED <<engineVars, utilVars, stops>>

\* startPolling: the loaded state is stored in memory and the record is
\* marked active.
StartPollingActivate ==
    /\ \/ starter.pc = "loaded" /\ ~starter.isExpired
       \/ starter.pc = "refreshed"
    /\ lastPollTimes' = IF starter.data.lastPollTime = Absent THEN Present(now)
                        ELSE starter.data.lastPollTime
    /\ processedFiles' = Present(starter.data.processedFiles)
    /\ db' = [db EXCEPT !.is_active = TRUE]
    /\ starter' = [starter EXCEPT !.pc = "activated"]
    /\ UNCHANGED <<now, drive, rawSupported, pollingIntervals, timers, ticks, runs>>
    /\ UNCHANGED <<engineVars, utilVars, stops>>

\* startPolling: the initial test poll is called.
StartPollingTest ==
    /\ starter.pc = "activated"
    /\ ticks' = Append(ticks, NewTick("test"))
    /\ starter' = [starter EXCEPT !.pc = "testing"]
    /\ UNCHANGED <<now, drive, rawSupported, db, pollingIntervals, timers,
                   lastPollTimes, processedFiles, runs>>
    /\ UNCHANGED <<engineVars, utilVars, stops>>

\* startPolling after the test poll has returned: the catch branch if it
\* threw, otherwise setInterval and the registry entry.
StartPollingInstall ==
    /\ starter.pc = "testing"
    /\ \E i \in 1..Len(ticks) :
          /\ ticks[i].kind = "test"
          /\ ticks[i].pc = "done"
          /\ IF ticks[i].threw
             THEN /\ db' = [db EXCEPT !.is_active = FALSE]
                  /\ starter' = [starter EXCEPT !.pc = "threw"]
                  /\ UNCHANGED <<timers, pollingIntervals>>
             ELSE /\ timers' = Append(timers, [live |-> TRUE, due |-> now + intervalMs])
                  /\ pollingIntervals' = Present(Len(timers) + 1)
                  /\ starter' = [starter EXCEPT !.pc = "started"]
                  /\ db' = db
    /\ UNCHANGED <<now, drive, rawSupported, lastPollTimes, processedFiles, ticks, runs>>
    /\ UNCHANGED <<engineVars, utilVars, stops>>

\* A live interval timer is due: its callback calls pollWorkflow.
TimerFire ==
    /\ Cardinality(TimerTicks) < MaxTicks
    /\ \E k \in 1..Len(timers) :
          /\ timers[k].live
          /\ now >= timers[k].due
          /\ timers' = [timers EXCEPT ![k].due = now + intervalMs]
    /\ ticks' = Append(ticks, NewTick("timer"))
    /\ UNCHANGED <<now, drive, rawSupported, db, pollingIntervals, lastPollTimes,
                   processedFiles, starter, runs>>
    /\ UNCHANGED <<engineVars, utilVars, stops>>

\* runner.execute of a tick: the trigger is polled and the run ends.
TickExecute ==
    /\ \E i \in 1..Len(ticks) :
          /\ ticks[i].pc = "running"
          /\ \E outcome \in EngineOutcomes :
                LET r == EngineRun(TickRunner, outcome, now)
                IN ticks' = [ticks EXCEPT ![i] =
                                [@ EXCEPT !.pc = "returned", !.ctx = r.ctx,
                                          !.polledAt = Present(now),
                                          !.seen = DOMAIN drive,
                                          !.out = r.out, !.success = r.success,
                                          !.outcome = outcome]]
    /\ UNCHANGED <<now, drive, rawSupported, db, pollingIntervals, timers,
                   lastPollTimes, processedFiles, starter, runs>>
    /\ UNCHANGED <<engineVars, utilVars, stops>>

\* pollWorkflow after execute: the new cursor is stored in memory; if the
\* trigger emitted items their ids are added to the Set and the update of the
\* record is built and sent. Building it throws if the client has no `raw`;
\* the catch of pollWorkflow logs the error and the call returns.
TickAfterExecute ==
    /\ \E i \in 1..Len(ticks) :
          /\ ticks[i].pc = "returned"
          /\ LET t == ticks[i]
                 files == (IF processedFiles = Absent THEN t.held.processedFiles
                           ELSE processedFiles[1]) \cup t.out
                 automationDataUpdate ==
                     [lastPollTime |-> Present(now), processedFiles |-> files]
                 update == [automation_data |-> automationDataUpdate,
                            run_count |-> [op |-> "add", value |-> 1]]
             IN /\ lastPollTimes' = Present(now)
                /\ IF t.out # {}
                   THEN /\ processedFiles' = IF processedFiles = Absent THEN processedFiles
                                             ELSE Present(files)
                        /\ ticks' = [ticks EXCEPT ![i] =
                              [@ EXCEPT !.newPollTime = Present(now),
                                        !.pc = IF rawSupported THEN "sent" ELSE "done",
                                        !.update = IF rawSupported THEN Present(update)
                                                   ELSE Absent]]
                   ELSE /\ processedFiles' = processedFiles
                        /\ ticks' = [ticks EXCEPT ![i] =
                              [@ EXCEPT !.newPollTime = Present(now), !.pc = "done"]]
    /\ UNCHANGED <<now, drive, rawSupported, db, pollingIntervals, timers, starter, runs>>
    /\ UNCHANGED <<engineVars, utilVars, stops>>

\* The update a tick sent reaches the database.
TickUpdateApplied ==
    /\ \E i \in 1..Len(ticks) :
          /\ ticks[i].pc = "sent"
          /\ db' = ApplyUpdate(db, ticks[i].update[1])
          /\ ticks' = [ticks EXCEPT ![i] = [@ EXCEPT !.pc = "done", !.persisted = TRUE]]
    /\ UNCHANGED <<now, drive, rawSupported, pollingIntervals, timers, lastPollTimes,
                   processedFiles, starter, runs>>
    /\ UNCHANGED <<engineVars, utilVars, stops>>

-----------------------------------------------------------------------------
(* The orchestration run: POST /api/automations/run *)

\* The request arrives and the route loads the user_automations record.
RunLoad ==
    /\ Len(runs) < MaxRuns
    /\ runs' = Append(runs,
          [pc |-> "loaded",
           instanceData |-> [automation_data |-> db.automation_data,
                             run_count |-> db.run_count],
           ctx |-> EmptyData, executionStartTime |-> Absent, out |-> {},
           success |-> FALSE, outcome |-> "none", update |-> Absent,
           response |-> Absent])
    /\ UNCHANGED <<now, drive, rawSupported, db, pollingIntervals, timers,
                   lastPollTimes, processedFiles, starter, ticks>>
    /\ UNCHANGED <<engineVars, utilVars, stops>>

\* Steps 5 to 7 of the route: the cursor and the processed ids of the loaded
\* record are handed to the runner, executionStartTime is taken and execute
\* polls the trigger.
RunExecute ==
    /\ \E i \in 1..Len(runs) :
          /\ runs[i].pc = "loaded"
          /\ \E outcome \in EngineOutcomes :
                LET automationState == runs[i].instanceData.automation_data
                    lastPollTime == IF automationState.lastPollTime = Absent
                                    THEN now - DayWindow
                                    ELSE automationState.lastPollTime[1]
                    r == EngineRun(RunRunner(lastPollTime, automationState.processedFiles),
                                   outcome, now)
                IN runs' = [runs EXCEPT ![i] =
                               [@ EXCEPT !.pc = "returned", !.ctx = r.ctx,
                                         !.executionStartTime = Present(now),
                                         !.out = r.out, !.success = r.success,
                                         !.outcome = outcome]]
    /\ UNCHANGED <<now, drive, rawSupported, db, pollingIntervals, timers,
                   lastPollTimes, processedFiles, starter, ticks>>
    /\ UNCHANGED <<engineVars, utilVars, stops>>

\* Step 9 of the route, the body of res.json: noNewFiles is an empty trigger
\* output, actualSuccess = noNewFiles ? true : result.success.
RunResponse(triggerOutput, success) ==
    LET noNewFiles == triggerOutput = {}
        actualSuccess == IF noNewFiles THEN TRUE ELSE success
    IN [success |-> actualSuccess,
        message |-> IF noNewFiles THEN NoNewFilesMessage ELSE NoMessage,
        filesProcessed |-> Cardinality(triggerOutput)]

\* Steps 8 and 9 of the route: the emitted ids are added to the processed ids
\* and the record is updated, with run_count one above the loaded one; the
\* route responds.
RunPersist ==
    /\ \E i \in 1..Len(runs) :
          /\ runs[i].pc = "returned"
          /\ LET r == runs[i]
                 updatedAutomationData ==
                     [lastPollTime |-> r.executionStartTime,
                      processedFiles |->
                          r.instanceData.automation_data.processedFiles \cup r.out]
                 update == [automation_data |-> updatedAutomationData,
                            run_count |-> [op |-> "set",
                                           value |-> r.instanceData.run_count + 1]]
             IN /\ db' = ApplyUpdate(db, update)
                /\ runs' = [runs EXCEPT ![i] =
                               [@ EXCEPT !.pc = "done", !.update = Present(update),
                                         !.response =
                                            Present(RunResponse(r.out, r.success))]]
    /\ UNCHANGED <<now, drive, rawSupported, pollingIntervals, timers, lastPollTimes,
                   processedFiles, starter, ticks>>
    /\ UNCHANGED <<engineVars, utilVars, stops>>

-----------------------------------------------------------------------------
(* The environment of the supervisor: the clock and the watched folder *)

ClockTick ==
    /\ now < MaxTime
    /\ now' = now + 1
    /\ UNCHANGED <<drive, rawSupported, db, pollingIntervals, timers, lastPollTimes,
                   processedFiles, starter, ticks, runs>>
    /\ UNCHANGED <<engineVars, utilVars, stops>>

\* The next file is uploaded to the watched folder.
UploadFile ==
    /\ Cardinality(DOMAIN drive) < Len(FileOrder)
    /\ drive' = Put(drive, FileOrder[Cardinality(DOMAIN drive) + 1], now)
    /\ UNCHANGED <<now, rawSupported, db, pollingIntervals, timers, lastPollTimes,
                   processedFiles, starter, ticks, runs>>
    /\ UNCHANGED <<engineVars, utilVars, stops>>

InitPolling ==
    /\ connections = <<>>
    /\ InitContext
    /\ rawSupported \in BOOLEAN
    /\ PollingStart
    /\ UtilIdle

NextPolling ==
    \/ StartPolling
    \/ StartPollingActivate
    \/ StartPollingTest
    \/ StartPollingInstall
    \/ TimerFire
    \/ TickExecute
    \/ TickAfterExecute
    \/ TickUpdateApplied
    \/ RunLoad
    \/ RunExecute
    \/ RunPersist
    \/ ClockTick
    \/ UploadFile

SpecPolling == InitPolling /\ [][NextPolling]_vars

-----------------------------------------------------------------------------
(* The life cycle of polling: the token refresh of startPolling, stopPolling, stopAll *)

\* refreshTokenIfNeeded refreshes a token that expires in less than 5 minutes.
RefreshMargin == 5
\* The life time of a refreshed access token: expires_in || 3600 seconds.
TokenLifetime == 60

\* The ids of the pair and the value undefined, as the pieces of text that
\* a template string puts together.
UserId == <<"user">>
AutomationId == <<"automation">>
Undefined == <<"undefined">>

\* const userAutomationKey = `${userId}_${automationId}`
userAutomationKey(automationId, userId) == userId \o <<"_">> \o automationId

PairKey == userAutomationKey(AutomationId, UserId)

\* this.pollingIntervals.get(key)
RegistryGet(key) == IF key = PairKey THEN pollingIntervals ELSE Absent

\* startPolling with an expired access token: refreshGoogleToken stores and
\* returns a new token, or throws, and then startPolling throws.
StartPollingRefresh ==
    /\ starter.pc = "loaded"
    /\ starter.isExpired
    /\ \E ok \in BOOLEAN :
          IF ok
          THEN /\ starter' = [starter EXCEPT !.pc = "refreshed",
                                             !.tokenExpiry = Present(now + TokenLifetime)]
               /\ db' = [db EXCEPT !.token_expiry = Present(now + TokenLifetime)]
          ELSE /\ starter' = [starter EXCEPT !.pc = "threw"]
               /\ db' = db
    /\ UNCHANGED <<now, drive, rawSupported, pollingIntervals, timers, lastPollTimes,
                   processedFiles, ticks, runs, stops>>
    /\ UNCHANGED <<engineVars, utilVars>>

\* stopPolling(automationId, userId) up to its await, called by the
\* stop-polling route or by stopAll: with a registry entry under the key it
\* cancels the timer, deletes the entries of the three maps and sends the
\* update of is_active; without one it does nothing and returns. The call
\* is recorded with the position of startPolling at the time of the call.
stopPolling(automationId, userId, by) ==
    LET intervalId == RegistryGet(userAutomationKey(automationId, userId))
        call == [by |-> by, during |-> starter.pc,
                 pc |-> IF intervalId # Absent THEN "sent" ELSE "returned"]
    IN /\ stops' = [calls |-> Append(stops.calls, call),
                    stopAll |-> IF by = "stopAll" THEN "returned" ELSE stops.stopAll]
       /\ IF intervalId # Absent
          THEN /\ timers' = [timers EXCEPT ![intervalId[1]].live = FALSE]
               /\ pollingIntervals' = Absent
               /\ lastPollTimes' = Absent
               /\ processedFiles' = Absent
          ELSE UNCHANGED <<timers, pollingIntervals, lastPollTimes, processedFiles>>

StopRequests == {i \in 1..Len(stops.calls) : stops.calls[i].by = "request"}

\* POST /api/automations/stop-polling calls stopPolling(automation_id, user_id).
StopPollingRequest ==
    /\ Cardinality(StopRequests) < MaxStops
    /\ stopPolling(AutomationId, UserId, "request")
    /\ UNCHANGED <<now, drive, rawSupported, db, starter, ticks, runs>>
    /\ UNCHANGED <<engineVars, utilVars>>

\* The update of is_active that stopPolling sent reaches the database and
\* stopPolling returns.
StopPollingApplied ==
    /\ \E i \in 1..Len(stops.calls) :
          /\ stops.calls[i].pc = "sent"
          /\ stops' = [stops EXCEPT !.calls[i].pc = "returned"]
    /\ db' = [db EXCEPT !.is_active = FALSE]
    /\ UNCHANGED <<now, drive, rawSupported, pollingIntervals, timers, lastPollTimes,
                   processedFiles, starter, ticks, runs>>
    /\ UNCHANGED <<engineVars, utilVars>>

\* stopAll: for (const workflowId of this.pollingIntervals.keys())
\* this.stopPolling(workflowId), the key passed as automationId and no userId.
StopAll ==
    /\ stops.stopAll = "idle"
    /\ IF pollingIntervals # Absent
       THEN stopPolling(PairKey, Undefined, "stopAll")
       ELSE /\ stops' = [stops EXCEPT !.stopAll = "returned"]
            /\ UNCHANGED <<timers, pollingIntervals, lastPollTimes, processedFiles>>
    /\ UNCHANGED <<now, drive, rawSupported, db, starter, ticks, runs>>
    /\ UNCHANGED <<engineVars, utilVars>>

\* The token_expiry of the record when the service meets it: none, already
\* past, within the refresh margin during the whole behaviour, far away.
TokenExpiries ==
    {Absent, Present(0), Present(MaxTime), Present(MaxTime + RefreshMargin + 1)}

InitLifecycle ==
    /\ connections = <<>>
    /\ InitContext
    /\ UtilIdle
    /\ rawSupported = TRUE
    /\ db \in {[InitialRecord EXCEPT !.token_expiry = e] : e \in TokenExpiries}
    /\ SupervisorStart

NextLifecycle ==
    \/ StartPolling
    \/ StartPollingRefresh
    \/ StartPollingActivate
    \/ StartPollingTest
    \/ StartPollingInstall
    \/ TimerFire
    \/ TickExecute
    \/ TickAfterExecute
    \/ StopPollingRequest
    \/ StopPollingApplied
    \/ StopAll
    \/ ClockTick

\* The supervisor with start, stop and shutdown of the pair's polling, on an
\* empty folder.
SpecLifecycle == InitLifecycle /\ [][NextLifecycle]_vars

-----------------------------------------------------------------------------
(* The resume of polling in the app.listen callback *)

\* The ids (positions) of the records with is_active = true, in the order of
\* the query result: .select(...).eq('is_active', true)
ActiveAutomations(records) ==
    LET IsActive(i) == records[i]
    IN SelectSeq([i \in 1..Len(records) |-> i], IsActive)

\* The state of the callback before the query: the table holds `records`,
\* one is_active flag for each record.
ResumeStart(records) ==
    [pc |-> "fetch", records |-> records, activeAutomations |-> <<>>,
     error |-> FALSE, idx |-> 1, log |-> <<>>]

\* The query of the active records returns: with an error the callback logs
\* and returns, with no record it logs, else the loop begins.
ResumeFetch ==
    /\ resume # Absent
    /\ resume[1].pc = "fetch"
    /\ \E error \in BOOLEAN :
          LET found == ActiveAutomations(resume[1].records)
          IN resume' = Present(
                IF error
                THEN [resume[1] EXCEPT !.pc = "done", !.error = TRUE]
                ELSE [resume[1] EXCEPT !.activeAutomations = found,
                                       !.pc = IF found # <<>> THEN "delay" ELSE "done"])
    /\ UNCHANGED <<invocation, batch, injection, preprocessing, evaluation>>
    /\ UNCHANGED <<engineVars, pollVars, auxVars>>

\* await new Promise(resolve => setTimeout(resolve, 500))
ResumeDelay ==
    /\ resume # Absent
    /\ resume[1].pc = "delay"
    /\ resume' = Present([resume[1] EXCEPT !.pc = "start",
                                           !.log = Append(@, <<"delay">>)])
    /\ UNCHANGED <<invocation, batch, injection, preprocessing, evaluation>>
    /\ UNCHANGED <<engineVars, pollVars, auxVars>>

\* The loop goes to its next record, or is over after the last one.
NextAutomation(r) ==
    [r EXCEPT !.idx = @ + 1,
              !.pc = IF r.idx < Len(r.activeAutomations) THEN "delay" ELSE "done"]

\* catch (err) of the loop body: the failure is logged and the loop goes on.
CatchResume_Rethrows(r) == [r EXCEPT !.pc = "done"]

CatchResume(r) == NextAutomation(r)

\* await backgroundService.startPolling(automation...) inside try/catch:
\* the call returns or throws.
ResumeStartPolling ==
    /\ resume # Absent
    /\ resume[1].pc = "start"
    /\ \E throws \in BOOLEAN :
          LET r == resume[1]
              called == [r EXCEPT !.log =
                            Append(@, <<"startPolling", r.activeAutomations[r.idx], throws>>)]
          IN resume' = Present(IF throws THEN CatchResume(called)
                                         ELSE NextAutomation(called))
    /\ UNCHANGED <<invocation, batch, injection, preprocessing, evaluation>>
    /\ UNCHANGED <<engineVars, pollVars, auxVars>>

InitResume ==
    /\ connections = <<>>
    /\ InitContext
    /\ PollingIdle
    /\ AuxIdle
    /\ invocation = Absent /\ batch = Absent /\ injection = Absent
    /\ preprocessing = Absent /\ evaluation = Absent
    /\ \E n \in 0..MaxRecords :
          \E records \in [1..n -> BOOLEAN] : resume = Present(ResumeStart(records))

NextResume ==
    \/ ResumeFetch
    \/ ResumeDelay
    \/ ResumeStartPolling

\* The service startup over every table of at most MaxRecords records.
SpecResume == InitResume /\ [][NextResume]_vars

-----------------------------------------------------------------------------
(* The token refresh of an invocation: run route, schedule route, startPolling *)

Providers == {"google", "tiktok", "other"}

\* const needsRefresh = expiryDate.getTime() - now.getTime() < 5 * 60 * 1000,
\* a missing token_expiry counting as new Date(0).
needsRefresh(instanceData, t) ==
    LET expiryDate == IF instanceData.token_expiry # Absent
                      THEN instanceData.token_expiry[1] ELSE 0
    IN expiryDate - t < RefreshMargin

\* refreshTokenIfNeeded(instanceData) at time t, the request to the provider
\* failing or not: what it returns, or that it threw.
refreshTokenIfNeeded(instanceData, t, fails) ==
    LET kept == [refreshed |-> FALSE, attempted |-> FALSE, threw |-> FALSE,
                 tokenExpiry |-> instanceData.token_expiry]
    IN IF ~instanceData.refresh_token THEN kept
       ELSE IF ~needsRefresh(instanceData, t) THEN kept
       ELSE IF instanceData.provider \notin {"google", "tiktok"} THEN kept
       ELSE IF fails
            THEN [kept EXCEPT !.attempted = TRUE, !.threw = TRUE]
            ELSE [refreshed |-> TRUE, attempted |-> TRUE, threw |-> FALSE,
                  tokenExpiry |-> Present(t + TokenLifetime)]

\* The token step of startPolling: it throws without a refresh token, and
\* refreshes through refreshGoogleToken only a token that has expired.
startPollingTokens(instanceData, t, fails) ==
    LET kept == [refreshed |-> FALSE, attempted |-> FALSE, threw |-> FALSE,
                 tokenExpiry |-> instanceData.token_expiry]
    IN IF ~instanceData.refresh_token THEN [kept EXCEPT !.threw = TRUE]
       ELSE IF ~isExpired(instanceData.token_expiry, t) THEN kept
       ELSE IF fails
            THEN [kept EXCEPT !.attempted = TRUE, !.threw = TRUE]
            ELSE [refreshed |-> TRUE, attempted |-> TRUE, threw |-> FALSE,
                  tokenExpiry |-> Present(t + TokenLifetime)]

InvocationKinds == {"run", "schedule", "startPolling"}

InvocationStart(kind, instanceData, t) ==
    [kind |-> kind, instanceData |-> instanceData, now |-> t, pc |-> "tokens",
     refreshFailed |-> FALSE, tokenExpiry |-> instanceData.token_expiry,
     outcome |-> "none"]

\* The token step of the invocation. The run route answers 401 when
\* refreshTokenIfNeeded throws; the catch of the schedule route only logs and
\* the route goes on with the tokens of the record; startPolling throws.
InvocationTokens ==
    /\ invocation # Absent
    /\ invocation[1].pc = "tokens"
    /\ \E fails \in BOOLEAN :
          LET v == invocation[1]
              r == IF v.kind = "startPolling"
                   THEN startPollingTokens(v.instanceData, v.now, fails)
                   ELSE refreshTokenIfNeeded(v.instanceData, v.now, fails)
              w == [v EXCEPT !.refreshFailed = r.attempted /\ r.threw,
                             !.tokenExpiry = r.tokenExpiry]
          IN invocation' = Present(
                IF ~r.threw THEN [w EXCEPT !.pc = "tokensReady"]
                ELSE IF v.kind = "run" THEN [w EXCEPT !.pc = "ended", !.outcome = "401"]
                ELSE IF v.kind = "schedule" THEN [w EXCEPT !.pc = "tokensReady"]
                ELSE [w EXCEPT !.pc = "ended", !.outcome = "threw"])
    /\ UNCHANGED <<resume, batch, injection, preprocessing, evaluation>>
    /\ UNCHANGED <<engineVars, pollVars, auxVars>>

\* The rest of the invocation: the run route executes the workflow, the
\* schedule route schedules it, startPolling installs the polling.
InvocationProceeds ==
    /\ invocation # Absent
    /\ invocation[1].pc = "tokensReady"
    /\ invocation' = Present([invocation[1] EXCEPT
                                 !.pc = "ended",
                                 !.outcome = CASE invocation[1].kind = "run" -> "executed"
                                               [] invocation[1].kind = "schedule" -> "scheduled"
                                               [] OTHER -> "polling"])
    /\ UNCHANGED <<resume, batch, injection, preprocessing, evaluation>>
    /\ UNCHANGED <<engineVars, pollVars, auxVars>>

InitInvocation ==
    /\ connections = <<>>
    /\ InitContext
    /\ PollingIdle
    /\ AuxIdle
    /\ resume = Absent /\ batch = Absent /\ injection = Absent
    /\ preprocessing = Absent /\ evaluation = Absent
    /\ \E kind \in InvocationKinds, t \in 0..MaxTime :
          \E instanceData \in [provider : Providers, refresh_token : BOOLEAN,
                               token_expiry : TokenExpiries] :
             invocation = Present(InvocationStart(kind, instanceData, t))

NextInvocation ==
    \/ InvocationTokens
    \/ InvocationProceeds

\* One invocation that uses the tokens of a record, for every kind of
\* invocation, record and time.
SpecInvocation == InitInvocation /\ [][NextInvocation]_vars

-----------------------------------------------------------------------------
(* The splitInBatches executor *)

\* Math.ceil(n / d) for n >= 0 and d > 0.
Ceil(n, d) == (n + d - 1) \div d

Min(a, b) == IF a < b THEN a ELSE b

\* items.slice(startIndex, endIndex) with 0 <= startIndex.
Slice(items, startIndex, endIndex) == SubSeq(items, startIndex + 1, endIndex)

\* executionContext.batchStates?.[nodeId] || { currentBatch: 0, ... }
NewBatchState == [currentBatch |-> 0, totalBatches |-> 0, allItems |-> <<>>]

\* const hasMoreBatches = batchState.currentBatch < batchState.totalBatches
hasMoreBatches_Inclusive(batchState) ==
    batchState.currentBatch <= batchState.totalBatches

hasMoreBatches(batchState) == batchState.currentBatch < batchState.totalBatches

\* execute(node, inputData, executionContext) of splitInBatches: the items
\* it returns, each with its _batchInfo, and the batchStates entry of the
\* node that it leaves in the execution context.
splitInBatches(batchSize, inputData, entry) ==
    LET found == IF entry # Absent THEN entry[1] ELSE NewBatchState
        batchState == IF found.currentBatch = 0
                      THEN [currentBatch |-> 1,
                            totalBatches |-> Ceil(Len(inputData), batchSize),
                            allItems |-> inputData]
                      ELSE found
        startIndex == (batchState.currentBatch - 1) * batchSize
        endIndex == Min(startIndex + batchSize, Len(batchState.allItems))
        batchItems == Slice(batchState.allItems, startIndex, endIndex)
        batchInfo == [currentBatch |-> batchState.currentBatch,
                      totalBatches |-> batchState.totalBatches,
                      batchSize |-> Len(batchItems)]
    IN [output |-> [k \in 1..Len(batchItems) |->
                       [item |-> batchItems[k], _batchInfo |-> batchInfo]],
        entry |-> IF hasMoreBatches(batchState)
                  THEN Present([batchState EXCEPT !.currentBatch = @ + 1])
                  ELSE Absent]

\* The inputs of an invocation: n distinct items.
ItemLists == {[k \in 1..n |-> k] : n \in 0..MaxItems}

\* One invocation of the executor on the execution context. `captured` and
\* `emitted` keep the input of the first invocation of the cycle and the
\* outputs of the cycle so far.
SplitInBatchesExecute ==
    /\ batch # Absent
    /\ \E inputData \in ItemLists :
          LET b == batch[1]
              r == splitInBatches(b.batchSize, inputData, b.entry)
              first == b.entry = Absent
          IN batch' = Present([b EXCEPT
                                  !.entry = r.entry,
                                  !.inputData = Present(inputData),
                                  !.captured = IF first THEN inputData ELSE @,
                                  !.emitted = IF first THEN <<r.output>>
                                              ELSE Append(@, r.output)])
    /\ UNCHANGED <<resume, invocation, injection, preprocessing, evaluation>>
    /\ UNCHANGED <<engineVars, pollVars, auxVars>>

InitBatch ==
    /\ connections = <<>>
    /\ InitContext
    /\ PollingIdle
    /\ AuxIdle
    /\ resume = Absent /\ invocation = Absent /\ injection = Absent
    /\ preprocessing = Absent /\ evaluation = Absent
    /\ \E batchSize \in 1..MaxBatchSize :
          batch = Present([batchSize |-> batchSize, entry |-> Absent,
                           inputData |-> Absent, captured |-> <<>>, emitted |-> <<>>])

NextBatch == SplitInBatchesExecute

\* Invocations of one splitInBatches node on one execution context.
SpecBatch == InitBatch /\ [][NextBatch]_vars

-----------------------------------------------------------------------------
(* injectParameters: placeholders {{NAME}} of a workflow template *)

\* JSON values: a string is the sequence of its characters.
StringValue(chars) == [type |-> "string", chars |-> chars]
NumberValue(n) == [type |-> "number", number |-> n]
BooleanValue(b) == [type |-> "boolean", boolean |-> b]
NullValue == [type |-> "null"]
ArrayValue(items) == [type |-> "array", items |-> items]
ObjectValue(fields) == [type |-> "object", fields |-> fields]

\* The characters of [A-Z0-9_] that the strings of the model are made of.
NameChars == {"A", "B", "O", "5"}

\* The first position from i on whose character is outside `chars`.
RECURSIVE SkipWhile(_, _, _)
SkipWhile(s, i, chars) ==
    IF i <= Len(s) /\ s[i] \in chars THEN SkipWhile(s, i + 1, chars) ELSE i

\* PLACEHOLDER_REGEX = /{{\s*([A-Z0-9_]+)\s*}}/g tried at position i of s:
\* whether it matches, the captured name and the position after the match.
PlaceholderAt(s, i) ==
    LET nameStart == SkipWhile(s, i + 2, {" "})
        nameEnd == SkipWhile(s, nameStart, NameChars)
        close == SkipWhile(s, nameEnd, {" "})
        ok == /\ i + 1 <= Len(s) /\ s[i] = "{" /\ s[i + 1] = "{"
              /\ nameEnd > nameStart
              /\ close + 1 <= Len(s) /\ s[close] = "}" /\ s[close + 1] = "}"
    IN [ok |-> ok,
        name |-> IF ok THEN SubSeq(s, nameStart, nameEnd - 1) ELSE <<>>,
        next |-> IF ok THEN close + 2 ELSE i]

DigitChars == <<"0", "1", "2", "3", "4", "5", "6", "7", "8", "9">>

\* String(n) for a natural number.
RECURSIVE NumberToString(_)
NumberToString(n) ==
    IF n < 10 THEN <<DigitChars[n + 1]>>
    ELSE NumberToString(n \div 10) \o <<DigitChars[(n % 10) + 1]>>

\* String(value): the text that JavaScript makes of a value; an array is
\* the texts of its items joined by commas.
RECURSIVE String(_)
String(value) ==
    CASE value.type = "string" -> value.chars
      [] value.type = "number" -> NumberToString(value.number)
      [] value.type = "boolean" -> IF value.boolean THEN <<"t", "r", "u", "e">>
                                   ELSE <<"f", "a", "l", "s", "e">>
      [] value.type = "null" -> <<"n", "u", "l", "l">>
      [] value.type = "array" ->
            IF value.items = <<>> THEN <<>>
            ELSE IF Len(value.items) = 1 THEN String(value.items[1])
            ELSE String(value.items[1]) \o <<",">> \o String(ArrayValue(Tail(value.items)))
      [] OTHER -> <<"[", "o", "b", "j", "e", "c", "t", " ", "O", "b", "j", "e", "c", "t", "]">>

\* The callback of value.replace for one match: the match itself for a name
\* that params does not have, params[name] as it is when the match is the
\* whole string and the value is not a string, else String(params[name]).
\* String.prototype.replace then turns what the callback returned into text.
Replacement(value, match, name, params) ==
    IF name \notin DOMAIN params THEN match
    ELSE IF match = value /\ params[name].type # "string"
         THEN String(params[name])
         ELSE String(params[name])

\* value.replace(PLACEHOLDER_REGEX, callback) from position i on: the matches
\* are taken from left to right and the text put in is not scanned again.
RECURSIVE ReplaceFrom(_, _, _)
ReplaceFrom(value, i, params) ==
    IF i > Len(value) THEN <<>>
    ELSE LET m == PlaceholderAt(value, i)
         IN IF m.ok
            THEN Replacement(value, SubSeq(value, i, m.next - 1), m.name, params)
                    \o ReplaceFrom(value, m.next, params)
            ELSE <<value[i]>> \o ReplaceFrom(value, i + 1, params)

RECURSIVE injectIntoValue(_, _)
injectIntoValue(value, params) ==
    CASE value.type = "null" -> value
      [] value.type = "string" -> StringValue(ReplaceFrom(value.chars, 1, params))
      [] value.type = "array" ->
            ArrayValue([k \in DOMAIN value.items |-> injectIntoValue(value.items[k], params)])
      [] value.type = "object" ->
            ObjectValue([k \in DOMAIN value.fields |-> injectIntoValue(value.fields[k], params)])
      [] OTHER -> value

\* cloneJson: the JSON round trip of a template, which is a JSON value.
cloneJson(value) == value

injectParameters(template, params) == injectIntoValue(cloneJson(template), params)

\* The pieces of the strings of the templates.
Pieces ==
    {<<"{", "{", "A", "}", "}">>, <<"{", "{", " ", "B", " ", "}", "}">>,
     <<"x">>, <<"{">>, <<"}", "}">>, <<"A">>}

RECURSIVE StringsOfPieces(_)
StringsOfPieces(n) ==
    IF n = 0 THEN {<<>>}
    ELSE LET shorter == StringsOfPieces(n - 1)
         IN shorter \cup {s \o piece : s \in shorter, piece \in Pieces}

\* The templates with the string s: the string alone, in an array, and in
\* the parameters of a node.
TemplatesWith(s) ==
    {StringValue(s),
     ArrayValue(<<StringValue(s), NumberValue(7), NullValue>>),
     ObjectValue([name |-> StringValue(<<"A">>),
                  parameters |-> ObjectValue([url |-> StringValue(s),
                                              enabled |-> BooleanValue(TRUE)])])}

\* The values of the parameter A and of the parameter B.
ParamValuesA ==
    {StringValue(<<"x">>), StringValue(<<"{", "{", "B", "}", "}">>), NumberValue(5),
     BooleanValue(TRUE), ObjectValue([id |-> StringValue(<<"x">>)])}

ParamValuesB == {StringValue(<<"x">>)}

ParamObject(a, b) ==
    [name \in {n \in {<<"A">>, <<"B">>} :
                  (n = <<"A">> /\ a # Absent) \/ (n = <<"B">> /\ b # Absent)} |->
        IF name = <<"A">> THEN a[1] ELSE b[1]]

ParamObjects ==
    {ParamObject(a, b) : a \in {Absent} \cup {Present(v) : v \in ParamValuesA},
                         b \in {Absent} \cup {Present(v) : v \in ParamValuesB}}

\* One call injectParameters(template, params).
InjectParameters ==
    /\ injection # Absent
    /\ injection[1].result = Absent
    /\ injection' = Present([injection[1] EXCEPT !.result =
                               Present(injectParameters(injection[1].template,
                                                        injection[1].params))])
    /\ UNCHANGED <<resume, invocation, batch, preprocessing, evaluation>>
    /\ UNCHANGED <<engineVars, pollVars, auxVars>>

InitInjection ==
    /\ connections = <<>>
    /\ InitContext
    /\ PollingIdle
    /\ AuxIdle
    /\ resume = Absent /\ invocation = Absent /\ batch = Absent
    /\ preprocessing = Absent /\ evaluation = Absent
    /\ \E s \in StringsOfPieces(MaxPieces), params \in ParamObjects :
          \E template \in TemplatesWith(s) :
             injection = Present([template |-> template, params |-> params,
                                  result |-> Absent])

NextInjection == InjectParameters

\* injectParameters over templates and parameter objects.
SpecInjection == InitInjection /\ [][NextInjection]_vars

-----------------------------------------------------------------------------
(* evaluateExpression: the interpolations {{ ... }} of the expression language *)

UndefinedValue == [type |-> "undefined"]

\* The names of the expression language.
JSON == <<"$", "j", "s", "o", "n">>
JSONDOT == <<"$", "j", "s", "o", "n", ".">>
TOKENS == <<"$", "t", "o", "k", "e", "n", "s">>
TOKENSDOT == <<"$", "t", "o", "k", "e", "n", "s", ".">>
INPUTFIRST == <<"$", "i", "n", "p", "u", "t", ".", "f", "i", "r", "s", "t", "(", ")">>

\* The values that JavaScript takes for true in `a || b`, `a && b`, `!a`.
Truthy(value) ==
    CASE value.type \in {"undefined", "null"} -> FALSE
      [] value.type = "boolean" -> value.boolean
      [] value.type = "number" -> value.number # 0
      [] value.type = "string" -> value.chars # <<>>
      [] OTHER -> TRUE

\* s.startsWith(p)
StartsWith(s, p) == Len(s) >= Len(p) /\ SubSeq(s, 1, Len(p)) = p

\* s.indexOf(p) + 1: the first position of p in s, 0 if there is none.
IndexOf(s, p) ==
    LET found == {i \in 1..(Len(s) - Len(p) + 1) : SubSeq(s, i, i + Len(p) - 1) = p}
    IN IF found = {} THEN 0 ELSE CHOOSE i \in found : \A j \in found : i <= j

\* s.includes(p)
Includes(s, p) == IndexOf(s, p) # 0

\* s.substring(n)
Substring(s, n) == SubSeq(s, n + 1, Len(s))

\* s.trim()
RECURSIVE Trim(_)
Trim(s) ==
    IF s = <<>> THEN s
    ELSE IF Head(s) = " " THEN Trim(Tail(s))
    ELSE IF s[Len(s)] = " " THEN Trim(SubSeq(s, 1, Len(s) - 1))
    ELSE s

\* s.replace(pattern, replacement) for a pattern that is a string: the first
\* occurrence is replaced (no value of the model has a $ in its text).
ReplaceFirst(s, pattern, replacement) ==
    LET i == IndexOf(s, pattern)
    IN IF i = 0 THEN s
       ELSE SubSeq(s, 1, i - 1) \o replacement \o SubSeq(s, i + Len(pattern), Len(s))

\* The first position from i on whose character is in `chars`.
RECURSIVE SkipUntil(_, _, _)
SkipUntil(s, i, chars) ==
    IF i <= Len(s) /\ s[i] \notin chars THEN SkipUntil(s, i + 1, chars) ELSE i

\* The matches of /\{\{([^}]+)\}\}/g in s from position i on, each with its
\* text and its group.
RECURSIVE Interpolations(_, _)
Interpolations(s, i) ==
    IF i > Len(s) THEN <<>>
    ELSE LET close == SkipUntil(s, i + 2, {"}"})
             ok == /\ i + 1 <= Len(s) /\ s[i] = "{" /\ s[i + 1] = "{"
                   /\ close > i + 2
                   /\ close + 1 <= Len(s) /\ s[close] = "}" /\ s[close + 1] = "}"
         IN IF ok
            THEN <<[text |-> SubSeq(s, i, close + 1), group |-> SubSeq(s, i + 2, close - 1)]>>
                    \o Interpolations(s, close + 2)
            ELSE Interpolations(s, i + 1)

\* value[key], undefined without such a property; an array has its indices.
Property(value, key) ==
    CASE value.type = "object" ->
            IF key \in DOMAIN value.fields THEN value.fields[key] ELSE UndefinedValue
      [] value.type = "array" ->
            LET at == {k \in 1..Len(value.items) : NumberToString(k - 1) = key}
            IN IF at = {} THEN UndefinedValue ELSE value.items[CHOOSE k \in at : TRUE]
      [] OTHER -> UndefinedValue

\* key in value, for a value that is an object or an array.
HasProperty(value, key) ==
    CASE value.type = "object" -> key \in DOMAIN value.fields
      [] value.type = "array" ->
            \E k \in 1..Len(value.items) : NumberToString(k - 1) = key
      [] OTHER -> FALSE

JsonKey == <<"j", "s", "o", "n">>

\* data.json || data
JsonOf(data) ==
    IF Truthy(Property(data, JsonKey)) THEN Property(data, JsonKey) ELSE data

Quotes == {"\"", "'"}

\* The loop of getJsonValue that splits a path in its parts: a leading
\* ["key"] or ['key'] is one part, else the text before the first dot is.
RECURSIVE PathParts(_)
PathParts(current) ==
    IF current = <<>> THEN <<>>
    ELSE LET quote == SkipUntil(current, 3, Quotes)
             bracket == /\ Len(current) >= 2
                        /\ current[1] = "[" /\ current[2] \in Quotes
                        /\ quote > 3
                        /\ quote + 1 <= Len(current)
                        /\ current[quote] \in Quotes /\ current[quote + 1] = "]"
             dotIndex == IndexOf(current, <<".">>)
         IN IF bracket
            THEN <<SubSeq(current, 3, quote - 1)>> \o PathParts(Substring(current, quote + 1))
            ELSE IF dotIndex = 0 THEN <<current>>
            ELSE (IF dotIndex > 1 THEN <<SubSeq(current, 1, dotIndex - 1)>> ELSE <<>>)
                    \o PathParts(Substring(current, dotIndex))

\* The loop of getJsonValue that goes through the parts.
RECURSIVE Navigate(_, _)
Navigate(value, parts) ==
    IF parts = <<>> THEN value
    ELSE IF value.type \in {"object", "array"} /\ HasProperty(value, Head(parts))
         THEN Navigate(Property(value, Head(parts)), Tail(parts))
         ELSE UndefinedValue

\* path.replace(/^\$json\.?/, '')
WithoutJsonPrefix(path) ==
    IF StartsWith(path, JSONDOT) THEN Substring(path, Len(JSONDOT))
    ELSE IF StartsWith(path, JSON) THEN Substring(path, Len(JSON))
    ELSE path

getJsonValue(path, data) ==
    IF ~Truthy(data) \/ path = <<>> THEN UndefinedValue
    ELSE LET rest == WithoutJsonPrefix(path)
         IN IF rest = <<>> THEN JsonOf(data)
            ELSE Navigate(JsonOf(data), PathParts(rest))

\* expr.replace(/^\$tokens\.?/, '')
WithoutTokensPrefix(expr) ==
    IF StartsWith(expr, TOKENSDOT) THEN Substring(expr, Len(TOKENSDOT))
    ELSE IF StartsWith(expr, TOKENS) THEN Substring(expr, Len(TOKENS))
    ELSE expr

\* evaluateExpressionValue for the forms $tokens, $json and $input.first();
\* any other form that starts with $ falls through to the last getJsonValue.
evaluateExpressionValue(expression, context) ==
    LET expr == Trim(expression)
        currentInput == context.currentInput
    IN IF StartsWith(expr, TOKENS)
       THEN getJsonValue(JSONDOT \o WithoutTokensPrefix(expr),
                         ObjectValue(JsonKey :> context.tokens))
       ELSE IF StartsWith(expr, JSON)
       THEN getJsonValue(expr, IF currentInput # <<>> THEN currentInput[1] ELSE NullValue)
       ELSE IF StartsWith(expr, INPUTFIRST)
       THEN IF currentInput # <<>>
            THEN getJsonValue(JSON \o ReplaceFirst(expr, INPUTFIRST, <<>>), currentInput[1])
            ELSE UndefinedValue
       ELSE IF StartsWith(expr, <<"$">>)
       THEN getJsonValue(expr, ArrayValue(currentInput))
       ELSE UndefinedValue

\* The string interpolation of evaluateExpression: every match is replaced
\* by the text of its value, undefined by the empty text.
RECURSIVE Interpolate(_, _, _)
Interpolate(text, matches, context) ==
    IF matches = <<>> THEN text
    ELSE LET value == evaluateExpressionValue(Trim(Head(matches).group), context)
         IN Interpolate(ReplaceFirst(text, Head(matches).text,
                                     IF value # UndefinedValue THEN String(value) ELSE <<>>),
                        Tail(matches), context)

\* if (matches.length === 1) and the match is the whole expression
expressionOnly(processedExpression, matches) ==
    /\ Len(matches) = 1
    /\ Trim(processedExpression) = Trim(matches[1].text)

evaluateExpression(expression, context) ==
    IF expression.type # "string" THEN expression
    ELSE LET trimmed == Trim(expression.chars)
             isExpression == \/ StartsWith(trimmed, <<"=">>)
                             \/ /\ Includes(expression.chars, <<"{", "{">>)
                                /\ Includes(expression.chars, <<"}", "}">>)
             processedExpression == IF StartsWith(trimmed, <<"=">>)
                                    THEN Trim(Substring(trimmed, 1)) ELSE trimmed
             matches == Interpolations(processedExpression, 1)
         IN IF ~isExpression THEN expression
            ELSE IF expressionOnly(processedExpression, matches)
            THEN evaluateExpressionValue(Trim(matches[1].group), context)
            ELSE StringValue(Interpolate(processedExpression, matches, context))

\* The context of the evaluations: one input item, and the token bag.
ItemJson ==
    ObjectValue((<<"a">> :> ObjectValue((<<"a">> :> BooleanValue(FALSE))
                                        @@ (<<"b">> :> NumberValue(5))
                                        @@ (<<"s">> :> ObjectValue(<<"a">> :> NullValue))))
                @@ (<<"b">> :> ArrayValue(<<NumberValue(1), NumberValue(2)>>))
                @@ (<<"s">> :> StringValue(<<"x">>)))

TokenBag ==
    ObjectValue((<<"a">> :> StringValue(<<"k", "e", "y">>))
                @@ (<<"b">> :> NumberValue(0)))

EvaluationContext ==
    [tokens |-> TokenBag, currentInput |-> <<ObjectValue(JsonKey :> ItemJson)>>]

PathKeys == {<<"a">>, <<"b">>, <<"s">>}

RECURSIVE KeyLists(_)
KeyLists(n) ==
    IF n = 0 THEN {<<>>}
    ELSE LET shorter == KeyLists(n - 1)
         IN shorter \cup {Append(keys, key) : keys \in shorter, key \in PathKeys}

PathRoots == {JSON, TOKENS, INPUTFIRST}

\* The text of a path: every key in dot notation (.key) or in bracket
\* notation (["key"]), as `brackets` says.
RECURSIVE PathText(_, _)
PathText(keys, brackets) ==
    IF keys = <<>> THEN <<>>
    ELSE (IF Head(brackets) THEN <<"[", "\"">> \o Head(keys) \o <<"\"", "]">>
          ELSE <<".">> \o Head(keys))
            \o PathText(Tail(keys), Tail(brackets))

\* One call evaluateExpression(expression, context).
EvaluateExpression ==
    /\ evaluation # Absent
    /\ evaluation[1].result = Absent
    /\ evaluation' = Present([evaluation[1] EXCEPT !.result =
                                Present(evaluateExpression(
                                           StringValue(evaluation[1].expression),
                                           EvaluationContext))])
    /\ UNCHANGED <<resume, invocation, batch, injection, preprocessing>>
    /\ UNCHANGED <<engineVars, pollVars, auxVars>>

InitEvaluation ==
    /\ connections = <<>>
    /\ InitContext
    /\ PollingIdle
    /\ AuxIdle
    /\ resume = Absent /\ invocation = Absent /\ batch = Absent
    /\ injection = Absent /\ preprocessing = Absent
    /\ \E root \in PathRoots, keys \in KeyLists(MaxDepth) :
          \E brackets \in [1..Len(keys) -> BOOLEAN],
             prefix \in {<<>>, <<"=">>}, space \in {<<>>, <<" ">>},
             around \in {<<>>, <<"x">>} :
             evaluation =
                Present([expression |-> prefix \o <<"{", "{">> \o space \o root
                                           \o PathText(keys, brackets) \o space
                                           \o <<"}", "}">> \o around,
                         root |-> root, keys |-> keys, around |-> around,
                         result |-> Absent])

NextEvaluation == EvaluateExpression

\* evaluateExpression over expressions of one interpolation with a path.
SpecEvaluation == InitEvaluation /\ [][NextEvaluation]_vars

-----------------------------------------------------------------------------
(* WorkflowPreprocessor: token values put into the parameters of the nodes *)

\* The characters of \w.
WordChars ==
    {"a", "b", "c", "d", "e", "f", "g", "h", "i", "j", "k", "l", "m", "n", "o", "p", "q", "r", "s", "t", "u", "v", "w", "x", "y", "z", "A", "B", "C", "D", "E", "F", "G", "H", "I", "J", "K", "L", "M", "N", "O", "P", "Q", "R", "S", "T", "U", "V", "W", "X", "Y", "Z", "0", "1", "2", "3", "4", "5", "6", "7", "8", "9", "_"}

\* An object with one more property, or with a property replaced.
WithProperty(object, key, value) == ObjectValue((key :> value) @@ object.fields)

\* processValue: a string with {{ and $tokens is evaluated as an expression
\* on the token bag, a string $tokens.name becomes the token of that name if
\* there is one; every other value stays.
processValue(value, tokens) ==
    IF value.type # "string" THEN value
    ELSE IF Includes(value.chars, <<"{", "{">>) /\ Includes(value.chars, TOKENS)
    THEN evaluateExpression(value, [tokens |-> tokens, currentInput |-> <<>>])
    ELSE LET tokenName == Substring(value.chars, Len(TOKENSDOT))
             directTokenMatch == /\ StartsWith(value.chars, TOKENSDOT)
                                 /\ tokenName # <<>>
                                 /\ \A k \in 1..Len(tokenName) : tokenName[k] \in WordChars
         IN IF directTokenMatch /\ Truthy(Property(tokens, tokenName))
            THEN Property(tokens, tokenName)
            ELSE value

\* const credentialPatterns = [...]
credentialPatterns ==
    <<[pattern |-> <<"a", "p", "i", "K", "e", "y">>,
       tokens |-> <<<<"o", "p", "e", "n", "A", "i", "A", "p", "i", "K", "e", "y">>,
                    <<"o", "p", "e", "n", "R", "o", "u", "t", "e", "r", "A", "p", "i", "K", "e", "y">>,
                    <<"a", "n", "t", "h", "r", "o", "p", "i", "c", "A", "p", "i", "K", "e", "y">>,
                    <<"h", "u", "g", "g", "i", "n", "g", "F", "a", "c", "e", "A", "p", "i", "K", "e", "y">>>>],
      [pattern |-> <<"a", "p", "i", "_", "k", "e", "y">>,
       tokens |-> <<<<"o", "p", "e", "n", "A", "i", "A", "p", "i", "K", "e", "y">>,
                    <<"o", "p", "e", "n", "R", "o", "u", "t", "e", "r", "A", "p", "i", "K", "e", "y">>,
                    <<"a", "n", "t", "h", "r", "o", "p", "i", "c", "A", "p", "i", "K", "e", "y">>,
                    <<"h", "u", "g", "g", "i", "n", "g", "F", "a", "c", "e", "A", "p", "i", "K", "e", "y">>>>],
      [pattern |-> <<"a", "c", "c", "e", "s", "s", "T", "o", "k", "e", "n">>,
       tokens |-> <<<<"g", "o", "o", "g", "l", "e", "A", "c", "c", "e", "s", "s", "T", "o", "k", "e", "n">>,
                    <<"s", "l", "a", "c", "k", "B", "o", "t", "T", "o", "k", "e", "n">>>>],
      [pattern |-> <<"a", "c", "c", "e", "s", "s", "_", "t", "o", "k", "e", "n">>,
       tokens |-> <<<<"g", "o", "o", "g", "l", "e", "A", "c", "c", "e", "s", "s", "T", "o", "k", "e", "n">>,
                    <<"s", "l", "a", "c", "k", "B", "o", "t", "T", "o", "k", "e", "n">>>>],
      [pattern |-> <<"t", "o", "k", "e", "n">>,
       tokens |-> <<<<"g", "o", "o", "g", "l", "e", "A", "c", "c", "e", "s", "s", "T", "o", "k", "e", "n">>,
                    <<"s", "l", "a", "c", "k", "B", "o", "t", "T", "o", "k", "e", "n">>,
                    <<"o", "p", "e", "n", "A", "i", "A", "p", "i", "K", "e", "y">>>>],
      [pattern |-> <<"o", "p", "e", "n", "R", "o", "u", "t", "e", "r", "A", "p", "i", "K", "e", "y">>,
       tokens |-> <<<<"o", "p", "e", "n", "R", "o", "u", "t", "e", "r", "A", "p", "i", "K", "e", "y">>>>],
      [pattern |-> <<"o", "p", "e", "n", "A", "i", "A", "p", "i", "K", "e", "y">>,
       tokens |-> <<<<"o", "p", "e", "n", "A", "i", "A", "p", "i", "K", "e", "y">>>>],
      [pattern |-> <<"g", "o", "o", "g", "l", "e", "A", "c", "c", "e", "s", "s", "T", "o", "k", "e", "n">>,
       tokens |-> <<<<"g", "o", "o", "g", "l", "e", "A", "c", "c", "e", "s", "s", "T", "o", "k", "e", "n">>>>],
      [pattern |-> <<"s", "l", "a", "c", "k", "B", "o", "t", "T", "o", "k", "e", "n">>,
       tokens |-> <<<<"s", "l", "a", "c", "k", "B", "o", "t", "T", "o", "k", "e", "n">>>>],
      [pattern |-> <<"a", "n", "t", "h", "r", "o", "p", "i", "c", "A", "p", "i", "K", "e", "y">>,
       tokens |-> <<<<"a", "n", "t", "h", "r", "o", "p", "i", "c", "A", "p", "i", "K", "e", "y">>>>],
      [pattern |-> <<"h", "u", "g", "g", "i", "n", "g", "F", "a", "c", "e", "A", "p", "i", "K", "e", "y">>,
       tokens |-> <<<<"h", "u", "g", "g", "i", "n", "g", "F", "a", "c", "e", "A", "p", "i", "K", "e", "y">>>>]>>

\* for (const tokenName of tokens) if (this.tokens[tokenName]) ...: the first
\* of the names that the token bag has a value for, if any.
RECURSIVE FirstToken(_, _)
FirstToken(names, tokens) ==
    IF names = <<>> THEN Absent
    ELSE IF Truthy(Property(tokens, Head(names)))
         THEN Present(Property(tokens, Head(names)))
         ELSE FirstToken(Tail(names), tokens)

\* processed[pattern] === undefined || === null || === ''
IsUnset(value) ==
    \/ value.type \in {"undefined", "null"}
    \/ value = StringValue(<<>>)

AuthenticationKey == <<"a", "u", "t", "h", "e", "n", "t", "i", "c", "a", "t", "i", "o", "n">>
CredentialsKey == <<"c", "r", "e", "d", "e", "n", "t", "i", "a", "l", "s">>

\* The body of the loop of injectCredentialParameters for one pattern: the
\* parameter of that name, and the entries of that name of the objects
\* authentication and credentials, get the first token there is.
InjectPattern(processed, entry, tokens) ==
    LET token == FirstToken(entry.tokens, tokens)
        Nested(object, key) ==
            LET inner == Property(object, key)
            IN IF /\ inner.type \in {"object", "array"}
                  /\ ~Truthy(Property(inner, entry.pattern))
                  /\ token # Absent
                  /\ inner.type = "object"
               THEN WithProperty(object, key, WithProperty(inner, entry.pattern, token[1]))
               ELSE object
        direct == IF IsUnset(Property(processed, entry.pattern)) /\ token # Absent
                  THEN WithProperty(processed, entry.pattern, token[1])
                  ELSE processed
    IN Nested(Nested(direct, AuthenticationKey), CredentialsKey)

\* for (const { pattern, tokens } of credentialPatterns): the loop body on
\* one pattern after the other; `processed` is and stays an object.
RECURSIVE InjectPatterns(_, _, _)
InjectPatterns(processed, patterns, tokens) ==
    IF patterns = <<>> THEN processed
    ELSE LET next == InjectPattern(processed, Head(patterns), tokens)
         IN IF next.type = "object"
            THEN InjectPatterns(next, Tail(patterns), tokens)
            ELSE next

injectCredentialParameters(params, tokens) ==
    InjectPatterns(params, credentialPatterns, tokens)

\* processParameters: every property is processed, nested objects and the
\* items of arrays too, and then the credential parameters are injected.
RECURSIVE processParameters(_, _)
processParameters(params, tokens) ==
    IF params.type # "object" THEN params
    ELSE LET Processed(value) ==
                 CASE value.type = "object" -> processParameters(value, tokens)
                   [] value.type = "array" ->
                         ArrayValue([k \in DOMAIN value.items |->
                                        IF value.items[k].type \in {"object", "array"}
                                        THEN processParameters(value.items[k], tokens)
                                        ELSE processValue(value.items[k], tokens)])
                   [] OTHER -> processValue(value, tokens)
         IN injectCredentialParameters(
               ObjectValue([key \in DOMAIN params.fields |-> Processed(params.fields[key])]),
               tokens)

\* node.type.includes('scheduleTrigger') || ... 'manualTrigger' || ... 'webhookTrigger'
IsExemptType(type) ==
    \/ Includes(type, <<"s", "c", "h", "e", "d", "u", "l", "e", "T", "r", "i", "g", "g", "e", "r">>)
    \/ Includes(type, <<"m", "a", "n", "u", "a", "l", "T", "r", "i", "g", "g", "e", "r">>)
    \/ Includes(type, <<"w", "e", "b", "h", "o", "o", "k", "T", "r", "i", "g", "g", "e", "r">>)

\* processNode for a node without credentials.
processNode(node, tokens) ==
    IF ~Truthy(node.parameters) THEN node
    ELSE IF node.type # <<>> /\ IsExemptType(node.type) THEN node
    ELSE [node EXCEPT !.parameters = processParameters(node.parameters, tokens)]

\* preprocess(workflow) for the nodes of a workflow.
preprocess(nodes, tokens) == [k \in DOMAIN nodes |-> processNode(nodes[k], tokens)]

\* The types of the nodes.
TypeOfScheduleTrigger == <<"n", "8", "n", "-", "n", "o", "d", "e", "s", "-", "b", "a", "s", "e", ".", "s", "c", "h", "e", "d", "u", "l", "e", "T", "r", "i", "g", "g", "e", "r">>
TypeOfManualTrigger == <<"n", "8", "n", "-", "n", "o", "d", "e", "s", "-", "b", "a", "s", "e", ".", "m", "a", "n", "u", "a", "l", "T", "r", "i", "g", "g", "e", "r">>
TypeOfWebhookTrigger == <<"n", "8", "n", "-", "n", "o", "d", "e", "s", "-", "b", "a", "s", "e", ".", "w", "e", "b", "h", "o", "o", "k", "T", "r", "i", "g", "g", "e", "r">>
TypeOfWebhook == <<"n", "8", "n", "-", "n", "o", "d", "e", "s", "-", "b", "a", "s", "e", ".", "w", "e", "b", "h", "o", "o", "k">>
TypeOfGoogleDriveTrigger == <<"n", "8", "n", "-", "n", "o", "d", "e", "s", "-", "b", "a", "s", "e", ".", "g", "o", "o", "g", "l", "e", "D", "r", "i", "v", "e", "T", "r", "i", "g", "g", "e", "r">>
TypeOfHttpRequest == <<"n", "8", "n", "-", "n", "o", "d", "e", "s", "-", "b", "a", "s", "e", ".", "h", "t", "t", "p", "R", "e", "q", "u", "e", "s", "t">>

PreprocessedTypes ==
    {TypeOfScheduleTrigger, TypeOfManualTrigger, TypeOfWebhookTrigger, TypeOfWebhook,
     TypeOfGoogleDriveTrigger, TypeOfHttpRequest}

\* The parameters of a node: with or without an accessToken of its own, an
\* expression on the tokens, an authentication object.
EmptyFields == [key \in {} |-> NullValue]

NodeParameters ==
    {UndefinedValue} \cup
    {ObjectValue((<<"f", "o", "l", "d", "e", "r", "I", "d">> :> StringValue(<<"f">>)) @@ access @@ expr @@ auth) :
        access \in {EmptyFields, <<"a", "c", "c", "e", "s", "s", "T", "o", "k", "e", "n">> :> StringValue(<<>>),
                    <<"a", "c", "c", "e", "s", "s", "T", "o", "k", "e", "n">> :> StringValue(<<"o", "w", "n">>)},
        expr \in {EmptyFields, <<"u", "r", "l">> :> StringValue(<<"=", "{", "{", " ", "$", "t", "o", "k", "e", "n", "s", ".", "o", "p", "e", "n", "A", "i", "A", "p", "i", "K", "e", "y", " ", "}", "}">>), <<"u", "r", "l">> :> StringValue(<<"$", "t", "o", "k", "e", "n", "s", ".", "g", "o", "o", "g", "l", "e", "A", "c", "c", "e", "s", "s", "T", "o", "k", "e", "n">>)},
        auth \in {EmptyFields, AuthenticationKey :> ObjectValue(EmptyFields)}}

\* The token bags of the preprocessor.
TokenBags ==
    {ObjectValue(google @@ openai) :
        google \in {EmptyFields, <<"g", "o", "o", "g", "l", "e", "A", "c", "c", "e", "s", "s", "T", "o", "k", "e", "n">> :> StringValue(<<"y", "a">>)},
        openai \in {EmptyFields, <<"o", "p", "e", "n", "A", "i", "A", "p", "i", "K", "e", "y">> :> StringValue(<<"s", "k">>)}}

\* One call preprocess(workflow) with a workflow of one node.
Preprocess ==
    /\ preprocessing # Absent
    /\ preprocessing[1].result = Absent
    /\ preprocessing' = Present([preprocessing[1] EXCEPT !.result =
                                   Present(preprocess(preprocessing[1].nodes,
                                                      preprocessing[1].tokens))])
    /\ UNCHANGED <<resume, invocation, batch, injection, evaluation>>
    /\ UNCHANGED <<engineVars, pollVars, auxVars>>

InitPreprocessing ==
    /\ connections = <<>>
    /\ InitContext
    /\ PollingIdle
    /\ AuxIdle
    /\ resume = Absent /\ invocation = Absent /\ batch = Absent
    /\ injection = Absent /\ evaluation = Absent
    /\ \E type \in PreprocessedTypes, parameters \in NodeParameters, tokens \in TokenBags :
          preprocessing = Present([nodes |-> <<[type |-> type, parameters |-> parameters]>>,
                                   tokens |-> tokens, result |-> Absent])

NextPreprocessing == Preprocess

\* The preprocessor over nodes of every type and token bags.
SpecPreprocessing == InitPreprocessing /\ [][NextPreprocessing]_vars

-----------------------------------------------------------------------------
(* Vocabulary of the properties *)

Node(n) == WorkflowNodes[n]

\* The connection records whose target is node n, by name or by id.
RecordsInto(n) ==
    {i \in 1..Len(connections) : connections[i].node \in {Node(n).name, Node(n).id}}

\* The source keys with an edge of any channel, and of the main channel, into node n.
SourcesOf(n) == {connections[i].src : i \in RecordsInto(n)}
MainSourcesOf(n) ==
    {connections[i].src : i \in {j \in RecordsInto(n) : connections[j].chan = "main"}}

ItemsOf(seq) == {seq[i] : i \in 1..Len(seq)}

Stored(key, value) == key \in DOMAIN ctxNodes /\ ctxNodes[key] = value
StoredItems(key) == IF key \in DOMAIN ctxNodes THEN ItemsOf(ctxNodes[key]) ELSE {}
InputWas(n, value) == n \in DOMAIN inputOf /\ inputOf[n] = value

InMainLoop == pc \in {"while", "loop1", "loop2"}
ReturnedNormally == pc = "returned" /\ result.error = NoMessage

\* The executor of node n is invoked in this step / node n is empty-skipped in this step.
Invoked(n) == calls'[Node(n).name] # calls[Node(n).name]
SkippedNow(n) == Node(n).name \in skipped' /\ Node(n).name \notin skipped

\* The failure policy recovers from message m thrown by node n: the node
\* continues on error, or the message says that a token or API key is absent.
Recoverable(n, m) == Node(n).onError = "continueErrorOutput" \/ m = CredentialMessage

\* The executor of node n throws in this step an error the policy recovers
\* from / aborts on.
ThrowsRecoverable(n) ==
    /\ Invoked(n)
    /\ threw'[Node(n).name] # NoMessage
    /\ Recoverable(n, threw'[Node(n).name])
ThrowsFatal(n) ==
    /\ Invoked(n)
    /\ threw'[Node(n).name] # NoMessage
    /\ ~Recoverable(n, threw'[Node(n).name])

-----------------------------------------------------------------------------
(* C1 *)

-----------------------------------------------------------------------------
(* C2 *)

-----------------------------------------------------------------------------
(* C3 *)

\* C3: a node is executed or empty-skipped only in a state in which every
\* source with an edge of any channel into it is already marked executed.
C3_SourcesFirst ==
    [][\A n \in NodeIdx :
          (Invoked(n) \/ SkippedNow(n)) => SourcesOf(n) \subseteq executedNodes]_vars

\* A node with a main source and a special-channel source has been executed.
C3_Witness ==
    \E n \in WiredIdx :
        /\ calls[Node(n).name] = 1
        /\ MainSourcesOf(n) # {}
        /\ SourcesOf(n) \ MainSourcesOf(n) # {}

-----------------------------------------------------------------------------
(* C4 *)

\* C4: once outputs[k] has been assigned (executor result, empty-input skip
\* or error item) it is neither assigned again nor changed.
C4_SetOnce ==
    [][\A k \in NodeKeys :
          /\ k \in DOMAIN ctxNodes => (k \in DOMAIN ctxNodes' /\ ctxNodes'[k] = ctxNodes[k])
          /\ writes[k] >= 1 => writes'[k] = writes[k]]_vars

\* One run stored an executor result, an error item and an empty-skip output.
C4_Witness ==
    /\ pc = "returned"
    /\ \E n \in NodeNames : Stored(n, <<DataItem(n)>>)
    /\ \E n \in NodeNames : threw[n] # NoMessage /\ Stored(n, <<ErrorItem(threw[n])>>)
    /\ \E n \in skipped : Stored(n, <<>>)

-----------------------------------------------------------------------------
(* C5 *)

\* Node indices reachable from the entry nodes along edges of any channel.
RECURSIVE ReachFrom(_, _)
ReachFrom(set, k) ==
    IF k = 0 THEN set
    ELSE ReachFrom(set \cup {n \in NodeIdx :
                                \E m \in set : Node(m).name \in SourcesOf(n)}, k - 1)

ReachableFromEntry ==
    ReachFrom({n \in NodeIdx : IsEntryNode(n)}, Len(WorkflowNodes))

\* C5: when execute returns without an abort, every non-UI node reachable
\* from an entry node has an entry in outputs.
C5_ReachableHaveOutputs ==
    ReturnedNormally =>
        \A n \in ReachableFromEntry :
            Node(n).type # StickyNoteType => Node(n).name \in DOMAIN ctxNodes

-----------------------------------------------------------------------------
(* C6 *)

UnexecutedNodes ==
    {n \in WiredIdx : Node(n).name \notin executedNodes /\ Node(n).id \notin executedNodes}

\* C6: an execute call that ends after a pass without progress while some
\* non-UI node is still unexecuted ends with the stall error, not with a
\* result without error.
C6_StallAborts ==
    (/\ pc = "returned"
     /\ result.error \notin Messages \cup {NoEntryMessage}
     /\ UnexecutedNodes # {})
    => result.error = StallMessage

-----------------------------------------------------------------------------
(* C7 *)

\* C7: when an executor throws and onError is continueErrorOutput or the
\* message is a credential-missing one, the engine adds one entry for the
\* node to errors, stores the single error item as its output, marks it
\* executed and goes on; a normal return then has success = false and has
\* executed every node fed by the failed node whose sources all executed.
C7_RecoveredState ==
    \A n \in NodeIdx :
        (threw[Node(n).name] # NoMessage /\ Recoverable(n, threw[Node(n).name])) =>
            /\ Cardinality({i \in 1..Len(errors) : errors[i].node = Node(n).name}) = 1
            /\ \E i \in 1..Len(errors) :
                  errors[i] = [node |-> Node(n).name, error |-> threw[Node(n).name]]
            /\ Stored(Node(n).name, <<ErrorItem(threw[Node(n).name])>>)
            /\ InMainLoop => Node(n).name \in executedNodes
            /\ pc = "returned" => ~result.success
            /\ ReturnedNormally =>
                  \A d \in WiredIdx :
                      (Node(n).name \in SourcesOf(d) /\ SourcesOf(d) \subseteq executedNodes)
                      => calls[Node(d).name] = 1

-----------------------------------------------------------------------------
(* C8 *)

\* C8: when an executor throws an error that is neither credential-missing
\* nor covered by continueErrorOutput, execute returns at once with
\* success = false, the outputs and errors stored so far and the aborting
\* error added; no executor is invoked after that.
C8_AbortOnError ==
    [][/\ \A n \in NodeIdx :
             ThrowsFatal(n) =>
                 /\ pc' = "returned"
                 /\ ~result'.success
                 /\ result'.error = threw'[Node(n).name]
                 /\ result'.outputs = ctxNodes
                 /\ result'.errors = Append(errors, [node |-> "", error |-> threw'[Node(n).name]])
       /\ pc = "returned" => calls' = calls]_vars

\* A node aborted the run after another node had stored output and an error
\* had been recorded.
C8_Witness ==
    /\ pc = "returned"
    /\ result.error = FailureMessage
    /\ Len(result.errors) = 2
    /\ \E k \in NodeNames : k \in DOMAIN result.outputs /\ calls[k] = 1
    /\ \E n \in WiredNames : calls[n] = 0

-----------------------------------------------------------------------------
(* C9 *)

\* Nodes that are the target of no edge, are no sticky note and are the
\* source of no ai_tool edge.
EntrySet ==
    {Node(n).name : n \in
        {m \in NodeIdx :
            /\ Node(m).type # StickyNoteType
            /\ RecordsInto(m) = {}
            /\ ~\E i \in 1..Len(connections) :
                  connections[i].chan = "ai_tool" /\ connections[i].src \in {Node(m).name, Node(m).id}}}

GivenInitialData == {n \in NodeNames : InputWas(n, formattedInitialData)}

\* C9: the nodes run with initialData are exactly the nodes of EntrySet, and
\* they run before every other node; with no such node execute returns
\* success = false with the no-entry error and invokes no executor.
C9_EntryNodes ==
    /\ GivenInitialData \subseteq EntrySet
    /\ (InMainLoop \/ ReturnedNormally) => GivenInitialData = EntrySet
    /\ \A n \in NodeNames \ EntrySet :
          (calls[n] > 0 \/ n \in skipped) => GivenInitialData = EntrySet
    /\ (EntrySet = {} /\ pc # "start") =>
          /\ pc = "returned"
          /\ ~result.success
          /\ result.error = NoEntryMessage
          /\ \A n \in NodeNames : calls[n] = 0

\* The entry node ran on initialData while an ai_tool source and an edge
\* target did not.
C9_Witness ==
    /\ InMainLoop
    /\ GivenInitialData # {}
    /\ toolSourceNodes # {}
    /\ \E n \in WiredNames \ toolSourceNodes : n \notin GivenInitialData

-----------------------------------------------------------------------------
(* C10 *)

GatheredInputs ==
    {n \in WiredIdx : Node(n).name \in DOMAIN inputOf /\ ~IsEntryNode(n)}

-----------------------------------------------------------------------------
(* Output slots: connections[src][chan][slot] of a multi-output source *)

\* The output slots of an If node: 0 is its true output, 1 its false output.
OutputSlots == {0, 1}

\* One connection record {node: ...} together with the slot it is listed in.
SlotRecords == [src : WiredNames, chan : Channels, node : WiredRefs, slot : OutputSlots]

\* Traversal order of a connections object whose channels have two slots:
\* source by source, main before the special types, slot 0 before slot 1.
SlotWellFormed(c) ==
    /\ \A i, j, k \in 1..Len(c) :
          (i < j /\ j < k /\ c[i].src = c[k].src) => c[j].src = c[i].src
    /\ \A i, j \in 1..Len(c) :
          (i < j /\ c[i].src = c[j].src) =>
              \/ ChannelRank(c[i].chan) < ChannelRank(c[j].chan)
              \/ /\ c[i].chan = c[j].chan
                 /\ \/ c[i].slot < c[j].slot
                    \/ /\ c[i].slot = c[j].slot
                       /\ RefRank(c[i].node) < RefRank(c[j].node)

SlotConnectionsUniverse ==
    {c \in UNION {[1..n -> SlotRecords] : n \in 0..MaxEdges} : SlotWellFormed(c)}

InitSlots ==
    /\ connections \in SlotConnectionsUniverse
    /\ InitContext
    /\ PollingIdle
    /\ UtilIdle

\* execute on a workflow whose connection records carry their slot.
SpecSlots == InitSlots /\ [][Next]_vars

-----------------------------------------------------------------------------
(* C11 *)

\* The slots of the main records that lead from source s into node n.
MainSlotsInto(n, s) ==
    {connections[i].slot :
        i \in {j \in RecordsInto(n) : connections[j].src = s /\ connections[j].chan = "main"}}

\* Node n is connected to source s through main slot 1 and through nothing else.
OnlySlotOne(n, s) ==
    /\ MainSlotsInto(n, s) = {1}
    /\ \A i \in RecordsInto(n) : connections[i].src = s => connections[i].chan = "main"

\* C11: a node connected to a multi-output source only through output slot 1
\* never receives the items of that source as input, whatever the source's
\* stored output is; only the nodes connected through slot 0 receive them.
C11_SlotOneReceivesNothing ==
    \A n \in GatheredInputs :
        \A s \in WiredNames :
            OnlySlotOne(n, s) =>
                ItemsOf(inputOf[Node(n).name]) \cap StoredItems(s) = {}

-----------------------------------------------------------------------------
(* Connections written with node ids as source keys *)

\* The connections object c with every source key replaced by the node's id.
KeyedById(c) ==
    [i \in 1..Len(c) |-> [c[i] EXCEPT !.src = WorkflowNodes[FindByName(@)].id]]

InitIds ==
    /\ connections \in {KeyedById(c) : c \in ConnectionsUniverse}
    /\ InitContext
    /\ PollingIdle
    /\ UtilIdle

\* execute on a workflow whose connections are keyed by node id.
SpecIds == InitIds /\ [][Next]_vars

-----------------------------------------------------------------------------
(* C12 *)

\* The name of the node a connection reference (a name or an id) stands for.
NameOf(key) == WorkflowNodes[FindByNameOrId(key)].name

\* The nodes with an edge into node n, by name, however the edge is written.
SourceNodesOf(n) == {NameOf(connections[i].src) : i \in RecordsInto(n)}

\* The nodes a run without abort handles when every reference is read as the
\* node it stands for: the entry nodes, and step by step every non-UI node
\* whose source nodes have all been handled.
RECURSIVE HandledFrom(_, _)
HandledFrom(set, k) ==
    IF k = 0 THEN set
    ELSE HandledFrom(
            set \cup {Node(n).name : n \in {m \in WiredIdx : SourceNodesOf(m) \subseteq set}},
            k - 1)

HandledByName ==
    HandledFrom({Node(n).name : n \in {m \in NodeIdx : IsEntryNode(m)}}, Len(WorkflowNodes))

\* The nodes this run executed or empty-skipped.
HandledNodes == {n \in NodeNames : calls[n] > 0 \/ n \in skipped}

\* C12: a workflow whose connections use node ids executes the same nodes as
\* the same workflow written with node names: on a normal return the nodes
\* handled are those the name-written workflow handles.
C12_IdsExecuteSameNodes ==
    ReturnedNormally => HandledNodes = HandledByName

-----------------------------------------------------------------------------
(* Vocabulary of the polling properties *)

TickIdx == 1..Len(ticks)
RunIdx == 1..Len(runs)

\* The calls of pollWorkflow that have not returned yet.
TicksInProgress == {i \in TickIdx : ticks[i].pc # "done"}

\* The calls of pollWorkflow whose engine run is over.
TicksExecuted == {i \in TickIdx : ticks[i].pc # "running"}

CompletedTicks == {i \in TickIdx : ticks[i].pc = "done"}
CompletedRuns == {i \in RunIdx : runs[i].pc = "done"}

\* The persisted cursor and processed ids of the pair.
PersistedCursor == db.automation_data.lastPollTime
PersistedFiles == db.automation_data.processedFiles

-----------------------------------------------------------------------------
(* C13 *)

\* C13: at most one polling tick of the pair is in progress at any time; a
\* timer firing while a tick is still running starts no overlapping tick.
C13_OneTickAtATime == Cardinality(TicksInProgress) <= 1

-----------------------------------------------------------------------------
(* C14 *)

\* C14: the lastPollTime a tick stores was captured before the engine run of
\* that tick started: it is never later than the moment the engine polled.
C14_CursorTakenBeforeRun ==
    \A i \in TickIdx :
        ticks[i].newPollTime # Absent => ticks[i].newPollTime[1] <= ticks[i].polledAt[1]

-----------------------------------------------------------------------------
(* C15 *)

\* C15: in a polling tick the trigger executor reads from the execution
\* context the lastPollTime and the processedFiles the supervisor holds for
\* the pair, not defaults.
C15_TriggerReadsSupervisorState ==
    \A i \in TicksExecuted : ticks[i].ctx = ticks[i].held

-----------------------------------------------------------------------------
(* C16 *)

\* Tick j started after tick i had recorded the ids it emitted, and polled
\* the folder in the state in which tick i polled it.
FollowsRecorded(i, j) ==
    /\ i < j
    /\ j \in TicksExecuted
    /\ ticks[i].out # {}
    /\ ticks[i].out \subseteq ticks[j].held.processedFiles
    /\ ticks[j].seen = ticks[i].seen

\* C16: if a tick emitted the file ids F and recorded them, a following tick
\* of the pair against the same external state emits none of F.
C16_NoReemission ==
    \A i, j \in TickIdx :
        FollowsRecorded(i, j) => ticks[j].out \cap ticks[i].out = {}

-----------------------------------------------------------------------------
(* C17 *)

\* C17: every completed polling tick, also one whose trigger returned no
\* items, has persisted the cursor and the processed set.
C17_EveryTickPersists ==
    \A i \in CompletedTicks : ticks[i].persisted

-----------------------------------------------------------------------------
(* C18 *)

\* C18: across any sequence or interleaving of ticks and runs of the pair the
\* persisted processedFiles only grows and the persisted lastPollTime never
\* decreases.
C18_PersistedStateMonotone ==
    [][/\ PersistedFiles \subseteq PersistedFiles'
       /\ PersistedCursor # Absent =>
             /\ PersistedCursor' # Absent
             /\ PersistedCursor[1] <= PersistedCursor'[1]]_vars

-----------------------------------------------------------------------------
(* C19 *)

\* C19: each completed tick or orchestration run increases the persisted
\* run_count by exactly 1: whenever no tick and no run is in progress,
\* run_count is the number of those completed.
C19_RunCountCountsCompletions ==
    (TicksInProgress = {} /\ CompletedRuns = RunIdx) =>
        db.run_count = Cardinality(CompletedTicks) + Cardinality(CompletedRuns)

-----------------------------------------------------------------------------
(* C20 *)

\* The test tick of startPolling is over and its execution was aborted.
TestTickFailed ==
    \E i \in CompletedTicks : ticks[i].kind = "test" /\ ~ticks[i].success

StartPollingOver == starter.pc \in {"returned", "started", "threw"}

\* C20: if the test tick of startPolling fails, startPolling installs no
\* timer, leaves no registry entry, sets is_active = false and throws.
C20_FailedTestTickStopsStart ==
    (TestTickFailed /\ StartPollingOver) =>
        /\ starter.pc = "threw"
        /\ \A k \in 1..Len(timers) : ~timers[k].live
        /\ pollingIntervals = Absent
        /\ ~db.is_active

-----------------------------------------------------------------------------
(* C21 *)

\* The call i of stopPolling made by the stop-polling route returns in this step.
StopReturns(i) ==
    /\ i \in 1..Len(stops'.calls)
    /\ stops'.calls[i].by = "request"
    /\ stops'.calls[i].pc = "returned"
    /\ i \in 1..Len(stops.calls) => stops.calls[i].pc # "returned"

\* C21: when a call stopPolling(automationId, userId) returns, the pair has
\* no registry entry, no timer of the pair is live, and the record of the
\* pair has is_active = false.
C21_StopPollingStopsThePair ==
    [][\A i \in 1..(Len(stops.calls) + 1) :
          StopReturns(i) =>
             /\ pollingIntervals' = Absent
             /\ \A k \in 1..Len(timers') : ~timers'[k].live
             /\ ~db'.is_active]_vars

-----------------------------------------------------------------------------
(* C22 *)

\* C22: when stopAll returns, every interval timer that startPolling
\* installed is cancelled and the polling registry is empty.
C22_StopAllCancelsEveryTimer ==
    [][(stops.stopAll = "idle" /\ stops'.stopAll = "returned") =>
          /\ pollingIntervals' = Absent
          /\ \A k \in 1..Len(timers') : ~timers'[k].live]_vars

-----------------------------------------------------------------------------
(* C24 *)

\* A token with this expiry is refresh-eligible at time t: the expiry is
\* missing or within the margin of t (the pair has a refresh token).
RefreshEligible(tokenExpiry, t) ==
    tokenExpiry = Absent \/ tokenExpiry[1] - t < RefreshMargin

\* C24: no scheduled tick runs the engine with an access token that is
\* refresh-eligible at the time of the run.
C24_NoTickWithEligibleToken ==
    \A i \in TicksExecuted :
       ticks[i].kind = "timer" =>
          ~RefreshEligible(ticks[i].tokenExpiry, ticks[i].polledAt[1])

-----------------------------------------------------------------------------
(* C23 *)

\* The records passed to startPolling so far, in the order of the calls.
RECURSIVE StartedOf(_)
StartedOf(log) ==
    IF log = <<>> THEN <<>>
    ELSE IF Head(log)[1] = "startPolling"
         THEN <<Head(log)[2]>> \o StartedOf(Tail(log))
         ELSE StartedOf(Tail(log))

\* Every call of startPolling in the log comes right after a delay.
DelayBeforeEachStart(log) ==
    \A k \in 1..Len(log) :
       log[k][1] = "startPolling" => k > 1 /\ log[k - 1][1] = "delay"

\* The ids of the records of the table with is_active = true, ascending.
RECURSIVE ActiveIdsUpTo(_, _)
ActiveIdsUpTo(records, n) ==
    IF n = 0 THEN <<>>
    ELSE ActiveIdsUpTo(records, n - 1) \o (IF records[n] THEN <<n>> ELSE <<>>)

-----------------------------------------------------------------------------
(* C25 *)

\* C25: an invocation whose token refresh was attempted and failed does not
\* go on: it ends with an authentication error, without executing or
\* scheduling the workflow or installing the polling.
C25_RefreshFailureEndsInvocation ==
    (invocation # Absent /\ invocation[1].refreshFailed) =>
        /\ invocation[1].pc = "ended"
        /\ invocation[1].outcome \in {"401", "threw"}

-----------------------------------------------------------------------------
(* C26 *)

\* The items of a sequence of outputs, one output after the other.
RECURSIVE EmittedItems(_)
EmittedItems(outputs) ==
    IF outputs = <<>> THEN <<>>
    ELSE [k \in 1..Len(Head(outputs)) |-> Head(outputs)[k].item] \o EmittedItems(Tail(outputs))

\* C26: the invocations of a cycle emit consecutive slices of the items
\* captured at its first invocation, in order, each of the batch size except
\* a smaller last one; the batchStates entry of the node is there exactly
\* while items of the cycle are left, so that after the last slice every
\* item was emitted exactly once and the next invocation starts a new cycle.
C26_BatchesCoverItemsInOrder ==
    (batch # Absent /\ batch[1].emitted # <<>>) =>
        LET b == batch[1]
            done == EmittedItems(b.emitted)
        IN /\ Len(done) <= Len(b.captured)
           /\ done = SubSeq(b.captured, 1, Len(done))
           /\ \A k \in 1..Len(b.emitted) :
                 \/ Len(b.emitted[k]) = b.batchSize
                 \/ /\ k = Len(b.emitted)
                    /\ Len(b.emitted[k]) < b.batchSize
                    /\ done = b.captured
           /\ (b.entry = Absent) <=> (done = b.captured)

\* A cycle of three invocations is over: two full batches and a smaller last
\* one, the later invocations having been given other input.
C26_Witness ==
    /\ batch # Absent
    /\ batch[1].entry = Absent
    /\ Len(batch[1].emitted) = 3
    /\ Len(batch[1].emitted[1]) = batch[1].batchSize
    /\ Len(batch[1].emitted[3]) \in 1..(batch[1].batchSize - 1)
    /\ batch[1].inputData # Present(batch[1].captured)

-----------------------------------------------------------------------------
(* C27 *)

\* The strings of a JSON value.
RECURSIVE StringsIn(_)
StringsIn(value) ==
    CASE value.type = "string" -> {value.chars}
      [] value.type = "array" ->
            UNION {StringsIn(value.items[k]) : k \in DOMAIN value.items}
      [] value.type = "object" ->
            UNION {StringsIn(value.fields[k]) : k \in DOMAIN value.fields}
      [] OTHER -> {}

\* The names of the placeholders {{NAME}} in a string.
PlaceholderNames(s) ==
    {PlaceholderAt(s, i).name : i \in {j \in 1..Len(s) : PlaceholderAt(s, j).ok}}

\* C27: no string of the graph that injectParameters(W, P) returns contains
\* a placeholder {{NAME}} with NAME a key of P.
C27_NoPlaceholderOfAKeyLeft ==
    (injection # Absent /\ injection[1].result # Absent) =>
        \A s \in StringsIn(injection[1].result[1]) :
           PlaceholderNames(s) \cap DOMAIN injection[1].params = {}

-----------------------------------------------------------------------------
(* C28 *)

\* The string is exactly one placeholder, of this name.
IsOnePlaceholder(s, name) ==
    /\ PlaceholderAt(s, 1).ok
    /\ PlaceholderAt(s, 1).next = Len(s) + 1
    /\ PlaceholderAt(s, 1).name = name

\* C28: for a template string that is exactly one placeholder {{NAME}} with
\* params[NAME] a number, boolean or object, injectParameters returns
\* params[NAME] itself, with its type.
C28_TypedValueKept ==
    (injection # Absent /\ injection[1].result # Absent) =>
        \A name \in DOMAIN injection[1].params :
           ( /\ injection[1].template.type = "string"
             /\ IsOnePlaceholder(injection[1].template.chars, name)
             /\ injection[1].params[name].type # "string" )
           => injection[1].result[1] = injection[1].params[name]

-----------------------------------------------------------------------------
(* C30 *)

\* The value that the root of a path stands for in the context.
RootValue(root) ==
    IF root = TOKENS THEN TokenBag ELSE ItemJson

\* The value at the end of the keys, undefined if a key is missing.
RECURSIVE ValueAt(_, _)
ValueAt(value, keys) ==
    IF keys = <<>> THEN value
    ELSE IF HasProperty(value, Head(keys))
         THEN ValueAt(Property(value, Head(keys)), Tail(keys))
         ELSE UndefinedValue

\* C30: for a string that is exactly one interpolation {{ path }}, with or
\* without a leading =, evaluateExpression returns the value at the path in
\* the context, with its type; a string with text around the interpolation
\* gives a string.
C30_WholeInterpolationKeepsType ==
    (evaluation # Absent /\ evaluation[1].result # Absent) =>
        IF evaluation[1].around = <<>>
        THEN evaluation[1].result[1] =
                ValueAt(RootValue(evaluation[1].root), evaluation[1].keys)
        ELSE evaluation[1].result[1].type = "string"

-----------------------------------------------------------------------------
(* C29 *)

\* The types of the trigger nodes: schedule, manual and webhook triggers and
\* the polling trigger googleDriveTrigger.
TriggerTypes ==
    {TypeOfScheduleTrigger, TypeOfManualTrigger, TypeOfWebhookTrigger, TypeOfWebhook,
     TypeOfGoogleDriveTrigger}

\* C29: preprocessing leaves the parameters of every trigger node as they
\* are.
C29_TriggerParametersUnchanged ==
    (preprocessing # Absent /\ preprocessing[1].result # Absent) =>
        \A k \in DOMAIN preprocessing[1].nodes :
           preprocessing[1].nodes[k].type \in TriggerTypes =>
              preprocessing[1].result[1][k].parameters =
                 preprocessing[1].nodes[k].parameters

-----------------------------------------------------------------------------
(* C32 *)

\* C32: a node marked executed after a call of its executor or after an
\* empty-input skip has its output in the context under its name and under
\* its id, the same item sequence under both.
C32_OutputsUnderNameAndId ==
    \A n \in NodeIdx :
       LET node == WorkflowNodes[n]
       IN ( /\ node.name \in executedNodes
            /\ (calls[node.name] > 0 \/ node.name \in skipped) )
          => /\ node.name \in DOMAIN ctxNodes
             /\ node.id \in DOMAIN ctxNodes
             /\ ctxNodes[node.name] = ctxNodes[node.id]

-----------------------------------------------------------------------------
(* C38 *)

\* startPolling has returned: the timer is installed, or it threw.
StartPollingReturned == starter.pc \in {"started", "threw"}

\* C38: when a call of stopPolling made by the stop-polling route while
\* startPolling was running its test tick has returned and startPolling has
\* returned too, no timer of the pair is live and the record of the pair has
\* is_active = false.
C38_StopDuringTestTickWins ==
    \A i \in 1..Len(stops.calls) :
       ( /\ stops.calls[i].by = "request"
         /\ stops.calls[i].during = "testing"
         /\ stops.calls[i].pc = "returned"
         /\ StartPollingReturned )
       => /\ \A k \in 1..Len(timers) : ~timers[k].live
          /\ ~db.is_active

-----------------------------------------------------------------------------
(* execute on a chain: node 1 -> node 2 -> ... -> node n *)

\* The longest chain.
MaxChainLength == 1002

\* The workflows: nodes 1..length, node 1 a manual trigger and the others
\* code nodes, each named by its number and without another id; one main
\* connection from every node but the last to the next node. Every executor
\* returns one item.
ChainLengths == {2, 3, 4, MaxChainLength}

\* Object.entries(connections): the keys are the nodes with an outgoing
\* connection, from the first to the last or from the last to the first.
ChainKeys(length, order) ==
    [i \in 1..(length - 1) |-> IF order = "forward" THEN i ELSE length - i]

\* canExecuteNode on the chain: the node before has been executed.
chainCanExecute(k, executed) == k = 1 \/ (k - 1) \in executed

\* The body of the first for loop for the key k: a node that is not executed
\* and can execute is executed (its input is the one item of the node
\* before) and added to executedNodes.
SourceStep(executed, k) ==
    IF k \notin executed /\ chainCanExecute(k, executed)
    THEN executed \cup {k} ELSE executed

\* `for (const [nodeName, nodeConnections] of Object.entries(connections))`
\* over the keys lo..hi in their order, as the two halves one after the other.
RECURSIVE SourceLoopOver(_, _, _, _)
SourceLoopOver(keys, lo, hi, executed) ==
    IF lo > hi THEN executed
    ELSE IF lo = hi THEN SourceStep(executed, keys[lo])
    ELSE LET mid == (lo + hi) \div 2
             first == SourceLoopOver(keys, lo, mid, executed)
         IN IF Cardinality(first) > 0
            THEN SourceLoopOver(keys, mid + 1, hi, first) ELSE first

\* `for (const node of workflow.nodes)`: every node but the last is a key
\* of connections and is passed over; the last one is executed if it can be.
SinkLoopOver(length, executed) ==
    IF length \notin executed /\ chainCanExecute(length, executed)
    THEN executed \cup {length} ELSE executed

\* execute up to the while loop: the entry node 1 is executed, and
\* executeWorkflow starts with executedNodes = the keys of the outputs.
ChainExecute ==
    /\ chain # Absent
    /\ chain[1].pc = "start"
    /\ chain' = Present([chain[1] EXCEPT !.pc = "while", !.executedNodes = {1},
                                         !.hasChanges = TRUE, !.iteration = 0])
    /\ UNCHANGED <<engineVars, pollVars, resume, invocation, batch, injection,
                   preprocessing, evaluation, job, mapper, service, second, refresh>>

\* The head of `while (hasChanges)`, with the iteration limit.
ChainWhileHead ==
    /\ chain # Absent
    /\ chain[1].pc = "while"
    /\ LET c == chain[1]
       IN chain' = Present(
             IF ~c.hasChanges
             THEN [c EXCEPT !.pc = "returned", !.result = "success"]
             ELSE IF c.iteration + 1 > MAX_ITERATIONS
             THEN [c EXCEPT !.pc = "returned", !.hasChanges = FALSE,
                            !.iteration = c.iteration + 1,
                            !.result = StallMessage]
             ELSE [c EXCEPT !.pc = "pass", !.hasChanges = FALSE,
                            !.iteration = c.iteration + 1])
    /\ UNCHANGED <<engineVars, pollVars, resume, invocation, batch, injection,
                   preprocessing, evaluation, job, mapper, service, second, refresh>>

\* One pass of the while loop: the two for loops.
ChainPass ==
    /\ chain # Absent
    /\ chain[1].pc = "pass"
    /\ LET c == chain[1]
           sources == SourceLoopOver(c.keys, 1, Len(c.keys), c.executedNodes)
           sinks == SinkLoopOver(c.length, sources)
       IN chain' = Present([c EXCEPT !.pc = "while", !.executedNodes = sinks,
                                     !.hasChanges = sinks # c.executedNodes])
    /\ UNCHANGED <<engineVars, pollVars, resume, invocation, batch, injection,
                   preprocessing, evaluation, job, mapper, service, second, refresh>>

InitChain ==
    /\ connections = <<>>
    /\ InitContext
    /\ PollingIdle
    /\ resume = Absent /\ invocation = Absent /\ batch = Absent
    /\ injection = Absent /\ preprocessing = Absent /\ evaluation = Absent
    /\ job = Absent /\ mapper = Absent /\ service = Absent /\ second = Absent
    /\ refresh = Absent
    /\ \E length \in ChainLengths, order \in {"forward", "reverse"} :
          chain = Present([length |-> length, keys |-> ChainKeys(length, order),
                           executedNodes |-> {}, hasChanges |-> FALSE,
                           iteration |-> 0, pc |-> "start", result |-> "none"])

NextChain ==
    \/ ChainExecute
    \/ ChainWhileHead
    \/ ChainPass

\* execute on chains of nodes, with the keys of connections in both orders.
SpecChain == InitChain /\ [][NextChain]_vars

-----------------------------------------------------------------------------
(* C40 *)

\* C40: execute on an acyclic workflow whose references all resolve never
\* ends with the maximum-iterations error.
C40_AcyclicNeverStalls ==
    chain # Absent => chain[1].result # StallMessage

-----------------------------------------------------------------------------
(* C33 *)

\* The engine aborted the run with an error.
Aborted(outcome) == outcome \in {"abortInTrigger", "abortAfterTrigger"}

\* C33: the response of an orchestration run in which the engine aborted
\* has success = false, and after an abort in or before the trigger it does
\* not carry the message 'No new files to process'.
C33_AbortedRunReportsFailure ==
    \A i \in 1..Len(runs) :
       (runs[i].pc = "done" /\ Aborted(runs[i].outcome))
       => /\ ~runs[i].response[1].success
          /\ runs[i].outcome = "abortInTrigger"
                => runs[i].response[1].message # NoNewFilesMessage

-----------------------------------------------------------------------------
(* C39 *)

\* The run i of the route stores its update in this step.
RunStores(i) == runs[i].pc = "returned" /\ runs'[i].pc = "done"

\* The tick i stores the new cursor of the supervisor in this step.
TickStores(i) == ticks[i].pc = "returned" /\ ticks'[i].pc # "returned"

\* C39: a run that aborted in or before the trigger leaves the stored
\* lastPollTime as it is, the one of the record for a run of the route and
\* the one of the supervisor for a tick.
C39_CursorKeptByFailedPoll ==
    [][/\ \A i \in 1..Len(runs) :
            (RunStores(i) /\ runs[i].outcome = "abortInTrigger")
            => db'.automation_data.lastPollTime = db.automation_data.lastPollTime
       /\ \A i \in 1..Len(ticks) :
            (TickStores(i) /\ ticks[i].outcome = "abortInTrigger")
            => lastPollTimes' = lastPollTimes]_vars

-----------------------------------------------------------------------------
(* Two calls of startPolling for the pair that overlap *)

\* The variables of the supervisor that a step of the second call leaves alone
\* whatever the step.
secondFrame == <<now, drive, rawSupported, runs, starter, stops>>

\* The second call up to its first await: the registry lookup and the load
\* of the record.
SecondStartPolling ==
    /\ second # Absent
    /\ second[1].pc = "idle"
    /\ IF pollingIntervals # Absent
       THEN second' = Present([second[1] EXCEPT !.pc = "returned"])
       ELSE second' = Present([pc |-> "loaded", data |-> db.automation_data,
                               tokenExpiry |-> db.token_expiry,
                               isExpired |-> isExpired(db.token_expiry, now)])
    /\ UNCHANGED <<db, pollingIntervals, timers, lastPollTimes, processedFiles, ticks>>
    /\ UNCHANGED <<secondFrame, engineVars, resume, invocation, batch, injection,
                   preprocessing, evaluation, chain, job, mapper, service,
                   refresh>>

\* The second call: the loaded state is stored in memory and the record is
\* marked active.
SecondActivate ==
    /\ second # Absent
    /\ second[1].pc = "loaded" /\ ~second[1].isExpired
    /\ lastPollTimes' = IF second[1].data.lastPollTime = Absent THEN Present(now)
                        ELSE second[1].data.lastPollTime
    /\ processedFiles' = Present(second[1].data.processedFiles)
    /\ db' = [db EXCEPT !.is_active = TRUE]
    /\ second' = Present([second[1] EXCEPT !.pc = "activated"])
    /\ UNCHANGED <<pollingIntervals, timers, ticks>>
    /\ UNCHANGED <<secondFrame, engineVars, resume, invocation, batch, injection,
                   preprocessing, evaluation, chain, job, mapper, service,
                   refresh>>

\* The second call: its initial test poll is called.
SecondTest ==
    /\ second # Absent
    /\ second[1].pc = "activated"
    /\ ticks' = Append(ticks, [NewTick("test2") EXCEPT
                                  !.tokenExpiry = second[1].tokenExpiry])
    /\ second' = Present([second[1] EXCEPT !.pc = "testing"])
    /\ UNCHANGED <<db, pollingIntervals, timers, lastPollTimes, processedFiles>>
    /\ UNCHANGED <<secondFrame, engineVars, resume, invocation, batch, injection,
                   preprocessing, evaluation, chain, job, mapper, service,
                   refresh>>

\* The second call after its test poll has returned: the catch branch if it
\* threw, otherwise setInterval and the registry entry.
SecondInstall ==
    /\ second # Absent
    /\ second[1].pc = "testing"
    /\ \E i \in 1..Len(ticks) :
          /\ ticks[i].kind = "test2"
          /\ ticks[i].pc = "done"
          /\ IF ticks[i].threw
             THEN /\ db' = [db EXCEPT !.is_active = FALSE]
                  /\ second' = Present([second[1] EXCEPT !.pc = "threw"])
                  /\ UNCHANGED <<timers, pollingIntervals>>
             ELSE /\ timers' = Append(timers, [live |-> TRUE, due |-> now + intervalMs])
                  /\ pollingIntervals' = Present(Len(timers) + 1)
                  /\ second' = Present([second[1] EXCEPT !.pc = "started"])
                  /\ db' = db
    /\ UNCHANGED <<lastPollTimes, processedFiles, ticks>>
    /\ UNCHANGED <<secondFrame, engineVars, resume, invocation, batch, injection,
                   preprocessing, evaluation, chain, job, mapper, service,
                   refresh>>

InitOverlap ==
    /\ connections = <<>>
    /\ InitContext
    /\ PollingIdle
    /\ resume = Absent /\ invocation = Absent /\ batch = Absent
    /\ injection = Absent /\ preprocessing = Absent /\ evaluation = Absent
    /\ chain = Absent /\ job = Absent /\ mapper = Absent /\ service = Absent
    /\ refresh = Absent
    /\ second = Present([pc |-> "idle", data |-> EmptyData, tokenExpiry |-> Absent,
                         isExpired |-> FALSE])

NextOverlap ==
    \/ StartPolling
    \/ StartPollingActivate
    \/ StartPollingTest
    \/ StartPollingInstall
    \/ SecondStartPolling
    \/ SecondActivate
    \/ SecondTest
    \/ SecondInstall
    \/ TickExecute
    \/ TickAfterExecute
    \/ StopPollingRequest
    \/ StopPollingApplied

\* Two calls of startPolling for the pair with their test ticks, and stop
\* requests, on an empty folder and before a timer is due.
SpecOverlap == InitOverlap /\ [][NextOverlap]_vars

-----------------------------------------------------------------------------
(* C37 *)

\* The interval timers that are installed and not cancelled.
LiveTimers == {k \in 1..Len(timers) : timers[k].live}

\* C37: at most one interval timer of the pair is live, and a live timer
\* is the one the registry holds under the key of the pair.
C37_OneTimerInRegistry ==
    /\ Cardinality(LiveTimers) <= 1
    /\ \A k \in LiveTimers : pollingIntervals = Present(k)

-----------------------------------------------------------------------------
(* TokenMapper: the mapping from external token names to standardized names *)

\* The most keys of a customMapping.
MaxMappingKeys == 2

UpperChars == <<"A", "B", "C", "D", "E", "F", "G", "H", "I", "J", "K", "L", "M", "N", "O", "P", "Q", "R", "S", "T", "U", "V", "W", "X", "Y", "Z">>
LowerChars == <<"a", "b", "c", "d", "e", "f", "g", "h", "i", "j", "k", "l", "m", "n", "o", "p", "q", "r", "s", "t", "u", "v", "w", "x", "y", "z">>

\* s.toLowerCase(), s a sequence of characters
ToLowerCase(s) ==
    [i \in 1..Len(s) |->
        IF \E j \in 1..Len(UpperChars) : UpperChars[j] = s[i]
        THEN LowerChars[CHOOSE j \in 1..Len(UpperChars) : UpperChars[j] = s[i]]
        ELSE s[i]]

\* this.defaultMapping: the pairs <<external name, standardized name>> in
\* the order of the object literal.
defaultMapping ==
    << <<<<"g", "o", "o", "g", "l", "e", "_", "o", "a", "u", "t", "h", "_", "t", "o", "k", "e", "n">>,
         <<"g", "o", "o", "g", "l", "e", "A", "c", "c", "e", "s", "s", "T", "o", "k", "e", "n">>>>,
       <<<<"g", "o", "o", "g", "l", "e", "_", "a", "c", "c", "e", "s", "s", "_", "t", "o", "k", "e", "n">>,
         <<"g", "o", "o", "g", "l", "e", "A", "c", "c", "e", "s", "s", "T", "o", "k", "e", "n">>>>,
       <<<<"g", "o", "o", "g", "l", "e", "_", "t", "o", "k", "e", "n">>,
         <<"g", "o", "o", "g", "l", "e", "A", "c", "c", "e", "s", "s", "T", "o", "k", "e", "n">>>>,
       <<<<"g", "o", "o", "g", "l", "e", "_", "r", "e", "f", "r", "e", "s", "h", "_", "t", "o", "k", "e", "n">>,
         <<"g", "o", "o", "g", "l", "e", "R", "e", "f", "r", "e", "s", "h", "T", "o", "k", "e", "n">>>>,
       <<<<"o", "p", "e", "n", "a", "i", "_", "a", "p", "i", "_", "k", "e", "y">>,
         <<"o", "p", "e", "n", "A", "i", "A", "p", "i", "K", "e", "y">>>>,
       <<<<"o", "p", "e", "n", "a", "i", "_", "k", "e", "y">>,
         <<"o", "p", "e", "n", "A", "i", "A", "p", "i", "K", "e", "y">>>>,
       <<<<"o", "p", "e", "n", "a", "i", "_", "t", "o", "k", "e", "n">>,
         <<"o", "p", "e", "n", "A", "i", "A", "p", "i", "K", "e", "y">>>>,
       <<<<"o", "p", "e", "n", "r", "o", "u", "t", "e", "r", "_", "a", "p", "i", "_", "k", "e", "y">>,
         <<"o", "p", "e", "n", "R", "o", "u", "t", "e", "r", "A", "p", "i", "K", "e", "y">>>>,
       <<<<"o", "p", "e", "n", "r", "o", "u", "t", "e", "r", "_", "k", "e", "y">>,
         <<"o", "p", "e", "n", "R", "o", "u", "t", "e", "r", "A", "p", "i", "K", "e", "y">>>>,
       <<<<"o", "p", "e", "n", "r", "o", "u", "t", "e", "r", "_", "t", "o", "k", "e", "n">>,
         <<"o", "p", "e", "n", "R", "o", "u", "t", "e", "r", "A", "p", "i", "K", "e", "y">>>>,
       <<<<"a", "n", "t", "h", "r", "o", "p", "i", "c", "_", "a", "p", "i", "_", "k", "e", "y">>,
         <<"a", "n", "t", "h", "r", "o", "p", "i", "c", "A", "p", "i", "K", "e", "y">>>>,
       <<<<"a", "n", "t", "h", "r", "o", "p", "i", "c", "_", "k", "e", "y">>,
         <<"a", "n", "t", "h", "r", "o", "p", "i", "c", "A", "p", "i", "K", "e", "y">>>>,
       <<<<"c", "l", "a", "u", "d", "e", "_", "a", "p", "i", "_", "k", "e", "y">>,
         <<"a", "n", "t", "h", "r", "o", "p", "i", "c", "A", "p", "i", "K", "e", "y">>>>,
       <<<<"h", "u", "g", "g", "i", "n", "g", "f", "a", "c", "e", "_", "a", "p", "i", "_", "k", "e", "y">>,
         <<"h", "u", "g", "g", "i", "n", "g", "F", "a", "c", "e", "A", "p", "i", "K", "e", "y">>>>,
       <<<<"h", "u", "g", "g", "i", "n", "g", "f", "a", "c", "e", "_", "k", "e", "y">>,
         <<"h", "u", "g", "g", "i", "n", "g", "F", "a", "c", "e", "A", "p", "i", "K", "e", "y">>>>,
       <<<<"h", "f", "_", "a", "p", "i", "_", "k", "e", "y">>,
         <<"h", "u", "g", "g", "i", "n", "g", "F", "a", "c", "e", "A", "p", "i", "K", "e", "y">>>>,
       <<<<"s", "l", "a", "c", "k", "_", "b", "o", "t", "_", "t", "o", "k", "e", "n">>,
         <<"s", "l", "a", "c", "k", "B", "o", "t", "T", "o", "k", "e", "n">>>>,
       <<<<"s", "l", "a", "c", "k", "_", "t", "o", "k", "e", "n">>,
         <<"s", "l", "a", "c", "k", "B", "o", "t", "T", "o", "k", "e", "n">>>>,
       <<<<"s", "l", "a", "c", "k", "_", "a", "p", "i", "_", "t", "o", "k", "e", "n">>,
         <<"s", "l", "a", "c", "k", "B", "o", "t", "T", "o", "k", "e", "n">>>>,
       <<<<"p", "i", "n", "e", "c", "o", "n", "e", "_", "a", "p", "i", "_", "k", "e", "y">>,
         <<"p", "i", "n", "e", "c", "o", "n", "e", "A", "p", "i", "K", "e", "y">>>>,
       <<<<"p", "i", "n", "e", "c", "o", "n", "e", "_", "k", "e", "y">>,
         <<"p", "i", "n", "e", "c", "o", "n", "e", "A", "p", "i", "K", "e", "y">>>>,
       <<<<"w", "e", "a", "v", "i", "a", "t", "e", "_", "a", "p", "i", "_", "k", "e", "y">>,
         <<"w", "e", "a", "v", "i", "a", "t", "e", "A", "p", "i", "K", "e", "y">>>>,
       <<<<"w", "e", "a", "v", "i", "a", "t", "e", "_", "k", "e", "y">>,
         <<"w", "e", "a", "v", "i", "a", "t", "e", "A", "p", "i", "K", "e", "y">>>>,
       <<<<"s", "u", "p", "a", "b", "a", "s", "e", "_", "a", "p", "i", "_", "k", "e", "y">>,
         <<"s", "u", "p", "a", "b", "a", "s", "e", "A", "p", "i", "K", "e", "y">>>>,
       <<<<"s", "u", "p", "a", "b", "a", "s", "e", "_", "k", "e", "y">>,
         <<"s", "u", "p", "a", "b", "a", "s", "e", "A", "p", "i", "K", "e", "y">>>>,
       <<<<"s", "u", "p", "a", "b", "a", "s", "e", "_", "a", "n", "o", "n", "_", "k", "e", "y">>,
         <<"s", "u", "p", "a", "b", "a", "s", "e", "A", "n", "o", "n", "K", "e", "y">>>>,
       <<<<"s", "u", "p", "a", "b", "a", "s", "e", "_", "s", "e", "r", "v", "i", "c", "e", "_", "k", "e", "y">>,
         <<"s", "u", "p", "a", "b", "a", "s", "e", "S", "e", "r", "v", "i", "c", "e", "K", "e", "y">>>> >>

\* obj[key] of the object whose entries are the pairs of the list; <<>>
\* (undefined) without such a key.
LookupPairs(pairs, key) ==
    IF \E i \in 1..Len(pairs) : pairs[i][1] = key
    THEN Present(pairs[CHOOSE i \in 1..Len(pairs) : pairs[i][1] = key][2])
    ELSE Absent

\* this.mapping = { ...this.defaultMapping, ...customMapping }, read at a
\* key: the value of customMapping if it has the key, else the default one.
MappingAt(customMapping, key) ==
    IF key \in DOMAIN customMapping THEN Present(customMapping[key])
    ELSE LookupPairs(defaultMapping, key)

\* standardizedNames.find(name => name.toLowerCase() === normalized)
matchingStandard(normalized) ==
    LET hits == {i \in 1..Len(defaultMapping) :
                    ToLowerCase(defaultMapping[i][2]) = normalized}
    IN IF hits = {} THEN Absent
       ELSE Present(defaultMapping[CHOOSE i \in hits : \A j \in hits : i <= j][2])

\* mapTokenName(externalTokenName) of a mapper built with customMapping
mapTokenName(customMapping, externalTokenName) ==
    IF externalTokenName = <<>> THEN externalTokenName
    ELSE LET normalized == Trim(ToLowerCase(externalTokenName))
             mapped == MappingAt(customMapping, normalized)
         IN IF mapped # Absent /\ mapped[1] # <<>> THEN mapped[1]
            ELSE IF matchingStandard(normalized) # Absent
            THEN matchingStandard(normalized)[1]
            ELSE externalTokenName

\* External names: in the default table or not, in lower case or not, with
\* a space around or not, and one that is a standardized name.
ExternalNames ==
    { <<"g", "o", "o", "g", "l", "e", "_", "t", "o", "k", "e", "n">>,
      <<"G", "o", "o", "g", "l", "e", "_", "T", "o", "k", "e", "n">>,
      <<"m", "y", "_", "t", "o", "k", "e", "n">>,
      <<" ", "m", "y", "_", "t", "o", "k", "e", "n">>,
      <<"O", "P", "E", "N", "A", "I", "_", "K", "E", "Y">>,
      <<"g", "o", "o", "g", "l", "e", "A", "c", "c", "e", "s", "s", "T", "o", "k", "e", "n">> }

\* The canonical names a caller maps them to.
CanonicalNames ==
    { <<"c", "u", "s", "t", "o", "m", "T", "o", "k", "e", "n">>,
      <<"g", "o", "o", "g", "l", "e", "R", "e", "f", "r", "e", "s", "h", "T", "o", "k", "e", "n">> }

\* The customMapping objects with at most MaxMappingKeys keys.
CustomMappings ==
    UNION {[keys -> CanonicalNames] :
             keys \in {k \in SUBSET ExternalNames : Cardinality(k) <= MaxMappingKeys}}

\* One call of mapTokenName on the mapper.
MapTokenName ==
    /\ mapper # Absent
    /\ mapper[1].name = Absent
    /\ \E name \in ExternalNames :
          mapper' = Present([mapper[1] EXCEPT
                                !.name = Present(name),
                                !.result = Present(mapTokenName(mapper[1].customMapping,
                                                                name))])
    /\ UNCHANGED <<engineVars, pollVars, resume, invocation, batch, injection,
                   preprocessing, evaluation, chain, job, service, second, refresh>>

InitMapper ==
    /\ connections = <<>>
    /\ InitContext
    /\ PollingIdle
    /\ resume = Absent /\ invocation = Absent /\ batch = Absent
    /\ injection = Absent /\ preprocessing = Absent /\ evaluation = Absent
    /\ chain = Absent /\ job = Absent /\ service = Absent /\ second = Absent
    /\ refresh = Absent
    /\ \E customMapping \in CustomMappings :
          mapper = Present([customMapping |-> customMapping, name |-> Absent,
                            result |-> Absent])

NextMapper == MapTokenName

\* new TokenMapper(customMapping) and one call of mapTokenName.
SpecMapper == InitMapper /\ [][NextMapper]_vars

-----------------------------------------------------------------------------
(* C34 *)

\* C34: mapTokenName of a key of the caller-supplied mapping returns the
\* canonical name the caller supplied for that key.
C34_CustomMappingWins ==
    (mapper # Absent /\ mapper[1].name # Absent)
    => LET m == mapper[1]
       IN m.name[1] \in DOMAIN m.customMapping
             => m.result[1] = m.customMapping[m.name[1]]

-----------------------------------------------------------------------------
(* refreshTokenIfNeeded with the tokens it reads, stores and returns *)

\* What a provider answers to a refresh that succeeds: a new access token,
\* a new refresh token or none, expires_in or none.
RefreshResults ==
    [access_token : {"newAccess"},
     refresh_token : {Absent, Present("newRefresh")},
     expires_in : {Absent, Present(TokenLifetime \div 2)}]

\* The return value without a refresh: the tokens of the record.
RefreshKept(instanceData) ==
    [accessToken |-> Present(instanceData.access_token),
     refreshToken |-> instanceData.refresh_token,
     refreshed |-> FALSE]

\* The object `updates`: the new access token and expiry, and the refresh
\* token only if a new one was returned.
RefreshUpdates(refreshResult, t) ==
    LET expiresIn == IF refreshResult.expires_in # Absent
                     THEN refreshResult.expires_in[1] ELSE TokenLifetime
    IN [access_token |-> Present(refreshResult.access_token),
        token_expiry |-> Present(t + expiresIn),
        refresh_token |-> refreshResult.refresh_token]

\* Variant of RefreshReturn that falls back to the tokens of the record when
\* the update of the record failed.
RefreshReturn_KeptOnWriteError(instanceData, refreshResult, error) ==
    IF error THEN RefreshKept(instanceData)
    ELSE [accessToken |-> Present(refreshResult.access_token),
          refreshToken |-> IF refreshResult.refresh_token # Absent
                           THEN refreshResult.refresh_token
                           ELSE instanceData.refresh_token,
          refreshed |-> TRUE]

\* The return value after a refresh, error being that of the update of the
\* record: the error is logged and the new tokens are returned either way.
RefreshReturn(instanceData, refreshResult, error) ==
    [accessToken |-> Present(refreshResult.access_token),
     refreshToken |-> IF refreshResult.refresh_token # Absent
                      THEN refreshResult.refresh_token
                      ELSE instanceData.refresh_token,
     refreshed |-> TRUE]

refreshFrame == <<engineVars, pollVars, resume, invocation, batch, injection,
                  preprocessing, evaluation, chain, job, mapper, service, second>>

\* refreshTokenIfNeeded up to the request to the provider: it returns the
\* tokens of the record without a refresh token, with a token that is not
\* about to expire, and for an unknown provider.
RefreshCheck ==
    /\ refresh # Absent
    /\ refresh[1].pc = "called"
    /\ LET c == refresh[1]
           instanceData == c.instanceData
       IN refresh' = Present(
             IF \/ instanceData.refresh_token = Absent
                \/ ~needsRefresh(instanceData, c.now)
                \/ instanceData.provider \notin {"google", "tiktok"}
             THEN [c EXCEPT !.pc = "returned",
                            !.returned = Present(RefreshKept(instanceData))]
             ELSE [c EXCEPT !.pc = "refreshing"])
    /\ UNCHANGED refreshFrame

\* The provider answers: the refresh throws and refreshTokenIfNeeded throws,
\* or it returns new tokens and the update of the record is sent.
RefreshAnswered ==
    /\ refresh # Absent
    /\ refresh[1].pc = "refreshing"
    /\ \/ refresh' = Present([refresh[1] EXCEPT !.pc = "threw"])
       \/ \E refreshResult \in RefreshResults :
             refresh' = Present([refresh[1] EXCEPT
                                    !.pc = "updating",
                                    !.refreshResult = Present(refreshResult)])
    /\ UNCHANGED refreshFrame

\* The update of the record returns, with an error or without: without one
\* the record holds the new tokens; refreshTokenIfNeeded returns.
RefreshUpdated ==
    /\ refresh # Absent
    /\ refresh[1].pc = "updating"
    /\ \E error \in BOOLEAN :
          LET c == refresh[1]
              updates == RefreshUpdates(c.refreshResult[1], c.now)
              stored == [access_token |-> updates.access_token,
                         token_expiry |-> updates.token_expiry,
                         refresh_token |-> IF updates.refresh_token # Absent
                                           THEN updates.refresh_token
                                           ELSE c.record.refresh_token]
          IN refresh' = Present([c EXCEPT
                !.pc = "returned",
                !.writeError = error,
                !.record = IF error THEN c.record ELSE stored,
                !.returned = Present(RefreshReturn(c.instanceData, c.refreshResult[1],
                                                   error))])
    /\ UNCHANGED refreshFrame

InitRefresh ==
    /\ connections = <<>>
    /\ InitContext
    /\ PollingIdle
    /\ resume = Absent /\ invocation = Absent /\ batch = Absent
    /\ injection = Absent /\ preprocessing = Absent /\ evaluation = Absent
    /\ chain = Absent /\ job = Absent /\ mapper = Absent /\ service = Absent
    /\ second = Absent
    /\ \E t \in 0..MaxTime :
          \E instanceData \in [provider : Providers, access_token : {"oldAccess"},
                               refresh_token : {Absent, Present("oldRefresh")},
                               token_expiry : TokenExpiries] :
             refresh = Present([instanceData |-> instanceData, now |-> t,
                                pc |-> "called", refreshResult |-> Absent,
                                writeError |-> FALSE,
                                record |-> [access_token |-> Present(instanceData.access_token),
                                            token_expiry |-> instanceData.token_expiry,
                                            refresh_token |-> instanceData.refresh_token],
                                returned |-> Absent])

NextRefresh ==
    \/ RefreshCheck
    \/ RefreshAnswered
    \/ RefreshUpdated

\* One call of refreshTokenIfNeeded, for every record, time, answer of the
\* provider and outcome of the update of the record.
SpecRefresh == InitRefresh /\ [][NextRefresh]_vars

-----------------------------------------------------------------------------
(* C35 *)

\* The call of refreshTokenIfNeeded has returned after a refresh that
\* succeeded and an update of the record that failed.
ReturnedAfterWriteError ==
    /\ refresh # Absent
    /\ refresh[1].pc = "returned"
    /\ refresh[1].refreshResult # Absent
    /\ refresh[1].writeError

\* C35: after a refresh that succeeded and an update of the record that
\* failed, refreshTokenIfNeeded returns refreshed = true with the new access
\* token, and with the new refresh token, or the one of the record if the
\* provider returned none.
C35_WriteErrorKeepsNewTokens ==
    ReturnedAfterWriteError =>
       LET c == refresh[1]
           r == c.returned[1]
       IN /\ r.refreshed
          /\ r.accessToken = Present(c.refreshResult[1].access_token)
          /\ r.refreshToken = IF c.refreshResult[1].refresh_token # Absent
                              THEN c.refreshResult[1].refresh_token
                              ELSE c.instanceData.refresh_token

\* A call returned after a failed update with the refresh token of the
\* record, the provider having returned none, and the record unchanged.
C35_Witness ==
    /\ ReturnedAfterWriteError
    /\ refresh[1].refreshResult[1].refresh_token = Absent
    /\ refresh[1].returned[1].refreshToken = Present("oldRefresh")
    /\ refresh[1].record.access_token = Present("oldAccess")

-----------------------------------------------------------------------------
(* WorkflowService.executeWorkflow: the required parameters of a template *)

\* `while ((match = PLACEHOLDER_REGEX.exec(value)) !== null) found.add(match[1])`
\* from position i on: exec searches the next match from lastIndex on and
\* the loop ends with the null that sets lastIndex back to 0.
RECURSIVE ExecLoop(_, _, _)
ExecLoop(value, i, found) ==
    IF i > Len(value) THEN found
    ELSE LET m == PlaceholderAt(value, i)
         IN IF m.ok THEN ExecLoop(value, m.next, found \cup {m.name})
            ELSE ExecLoop(value, i + 1, found)

\* Variant of walkForParameters that does not go into arrays.
RECURSIVE walkForParameters_NoArrays(_)
walkForParameters_NoArrays(value) ==
    CASE value.type = "string" -> ExecLoop(value.chars, 1, {})
      [] value.type = "object" ->
            UNION {walkForParameters_NoArrays(value.fields[k]) : k \in DOMAIN value.fields}
      [] OTHER -> {}

\* walkForParameters(value, found): the names it adds to the Set found.
RECURSIVE walkForParameters(_)
walkForParameters(value) ==
    CASE value.type = "string" -> ExecLoop(value.chars, 1, {})
      [] value.type = "array" ->
            UNION {walkForParameters(value.items[k]) : k \in DOMAIN value.items}
      [] value.type = "object" ->
            UNION {walkForParameters(value.fields[k]) : k \in DOMAIN value.fields}
      [] OTHER -> {}

extractParameterNames(template) == walkForParameters(template)

\* requiredParams.filter(name => !Object.prototype.hasOwnProperty.call(userParameters, name))
MissingParameters(requiredParams, userParameters) ==
    {name \in requiredParams : name \notin DOMAIN userParameters}

MISSING_PARAMETERS == "MISSING_PARAMETERS"
NodesArrayMessage == "Workflow must have a nodes array"

\* The templates of the service with the string s: a workflow with one node
\* that has s in its parameters and in a list of headers, and an object
\* without a nodes array.
ServiceTemplates(s) ==
    {ObjectValue([nodes |-> ArrayValue(<<
         ObjectValue([name |-> StringValue(<<"A">>),
                      parameters |-> ObjectValue([url |-> StringValue(s),
                                                  headers |-> ArrayValue(<<
                                                     StringValue(<<"{", "{", "B", "}", "}">>),
                                                     NumberValue(7)>>)])])>>)]),
     ObjectValue([name |-> StringValue(s)])}

\* executeWorkflow(workflowId, userParameters) of a registered template.
ExecuteWorkflow ==
    /\ service # Absent
    /\ service[1].pc = "called"
    /\ LET c == service[1]
           requiredParams == extractParameterNames(c.template)
           missing == MissingParameters(requiredParams, c.userParameters)
           injectedWorkflow == injectParameters(c.template, c.userParameters)
       IN service' = Present(
             IF missing # {}
             THEN [c EXCEPT !.pc = "threw",
                            !.error = Present([message |-> "Missing parameters for workflow execution",
                                               code |-> MISSING_PARAMETERS,
                                               missing |-> missing])]
             ELSE IF ~( /\ "nodes" \in DOMAIN injectedWorkflow.fields
                        /\ injectedWorkflow.fields["nodes"].type = "array" )
             THEN [c EXCEPT !.pc = "threw",
                            !.error = Present([message |-> NodesArrayMessage,
                                               code |-> "", missing |-> {}])]
             ELSE [c EXCEPT !.pc = "returned", !.runners = c.runners + 1,
                            !.executed = Present(injectedWorkflow)])
    /\ UNCHANGED <<engineVars, pollVars, resume, invocation, batch, injection,
                   preprocessing, evaluation, chain, job, mapper, second, refresh>>

InitService ==
    /\ connections = <<>>
    /\ InitContext
    /\ PollingIdle
    /\ resume = Absent /\ invocation = Absent /\ batch = Absent
    /\ injection = Absent /\ preprocessing = Absent /\ evaluation = Absent
    /\ chain = Absent /\ job = Absent /\ mapper = Absent /\ second = Absent
    /\ refresh = Absent
    /\ \E s \in StringsOfPieces(MaxPieces), params \in ParamObjects :
          \E template \in ServiceTemplates(s) :
             service = Present([template |-> template, userParameters |-> params,
                                pc |-> "called", error |-> Absent, runners |-> 0,
                                executed |-> Absent])

NextService == ExecuteWorkflow

\* One call of executeWorkflow, for templates and parameter maps.
SpecService == InitService /\ [][NextService]_vars

-----------------------------------------------------------------------------
(* C36 *)

\* The names of the placeholders that occur in a string of the template.
OccurringNames(template) ==
    UNION {PlaceholderNames(str) : str \in StringsIn(template)}

\* The call of executeWorkflow has ended and its parameter map lacks a
\* placeholder name of the template.
EndedWithMissingName ==
    /\ service # Absent
    /\ service[1].pc # "called"
    /\ OccurringNames(service[1].template) \ DOMAIN service[1].userParameters # {}

\* C36: executeWorkflow with a parameter map that lacks a placeholder name
\* of the template throws the error MISSING_PARAMETERS whose list `missing`
\* holds exactly the names that lack, and no runner is created and no
\* workflow is executed.
C36_MissingParametersThrown ==
    EndedWithMissingName =>
       LET c == service[1]
       IN /\ c.pc = "threw"
          /\ c.error # Absent
          /\ c.error[1].code = MISSING_PARAMETERS
          /\ c.error[1].missing = OccurringNames(c.template) \ DOMAIN c.userParameters
          /\ c.runners = 0
          /\ c.executed = Absent

\* A call that lacked the name B of a placeholder inside an array while it
\* had the name A of a placeholder of the template.
C36_Witness ==
    /\ EndedWithMissingName
    /\ <<"A">> \in OccurringNames(service[1].template)
    /\ <<"A">> \in DOMAIN service[1].userParameters
    /\ service[1].error[1].missing = {<<"B">>}

-----------------------------------------------------------------------------
(* The queue 'workflow-execution': addWorkflowJob and the worker *)

\* The most jobs added to the queue.
MaxJobs == 2

\* jobOptions.attempts
attempts == 3

\* How the processor of the worker ends: runner.execute returns a result
\* with success true, or returns one with success false because the error
\* of a node was caught by execute, or the processor throws because
\* execute threw before its try block.
ProcessorOutcomes == {"success", "nodeError", "threw"}

\* The delays a caller passes to addWorkflowJob.
Delays == {0 - 1, 0, 1}

queueFrame == <<engineVars, pollVars, resume, invocation, batch, injection,
                preprocessing, evaluation, chain, mapper, service, second, refresh>>

\* addWorkflowJob(workflow, initialData, tokens, tokenMapping, delay): it
\* throws for a negative delay, else the job is added with attempts: 3.
AddWorkflowJob ==
    /\ Len(job) < MaxJobs
    /\ \E delay \in Delays :
          job' = Append(job,
                    IF delay < 0
                    THEN [state |-> "rejected", opts |-> [attempts |-> 0, delay |-> delay],
                          attemptsMade |-> 0, outcomes |-> <<>>, reported |-> Absent]
                    ELSE [state |-> "waiting",
                          opts |-> [attempts |-> attempts, delay |-> delay],
                          attemptsMade |-> 0, outcomes |-> <<>>, reported |-> Absent])
    /\ UNCHANGED queueFrame

\* The worker takes a waiting job and runs the processor on it. A processor
\* that returns completes the job with the result as return value; one that
\* throws fails the attempt, and the queue puts the job back while it has
\* attempts left and fails the job otherwise.
WorkerProcess ==
    /\ \E i \in 1..Len(job) :
          /\ job[i].state = "waiting"
          /\ \E outcome \in ProcessorOutcomes :
                LET j == job[i]
                    made == j.attemptsMade + 1
                    outcomes == Append(j.outcomes, outcome)
                IN job' = [job EXCEPT ![i] =
                      IF outcome # "threw"
                      THEN [j EXCEPT !.state = "completed", !.attemptsMade = made,
                                     !.outcomes = outcomes]
                      ELSE IF made < j.opts.attempts
                      THEN [j EXCEPT !.state = "waiting", !.attemptsMade = made,
                                     !.outcomes = outcomes]
                      ELSE [j EXCEPT !.state = "failed", !.attemptsMade = made,
                                     !.outcomes = outcomes]]
    /\ UNCHANGED queueFrame

\* worker.on('completed') and worker.on('failed'): the status of the payload
\* of the webhook notification.
WorkerEvent ==
    /\ \E i \in 1..Len(job) :
          /\ job[i].state \in {"completed", "failed"}
          /\ job[i].reported = Absent
          /\ job' = [job EXCEPT ![i].reported =
                        Present(IF job[i].state = "completed" THEN "success"
                                ELSE "failed")]
    /\ UNCHANGED queueFrame

InitQueue ==
    /\ connections = <<>>
    /\ InitContext
    /\ PollingIdle
    /\ resume = Absent /\ invocation = Absent /\ batch = Absent
    /\ injection = Absent /\ preprocessing = Absent /\ evaluation = Absent
    /\ chain = Absent /\ mapper = Absent /\ service = Absent /\ second = Absent
    /\ refresh = Absent
    /\ job = <<>>

NextQueue ==
    \/ AddWorkflowJob
    \/ WorkerProcess
    \/ WorkerEvent

\* Jobs added to the queue and processed by the worker.
SpecQueue == InitQueue /\ [][NextQueue]_vars

-----------------------------------------------------------------------------
(* C31 *)

\* The last run of the processor on the job ended with a workflow execution
\* that a node error aborted.
LastExecutionFailed(j) ==
    j.outcomes # <<>> /\ j.outcomes[Len(j.outcomes)] = "nodeError"

\* C31: a job that has left the queue after a workflow execution that
\* failed has been run 3 times and is reported as failed.
C31_FailedExecutionRetried ==
    \A i \in 1..Len(job) :
       (job[i].state \in {"completed", "failed"} /\ LastExecutionFailed(job[i]))
       => /\ Len(job[i].outcomes) = attempts
          /\ job[i].state = "failed"
          /\ job[i].reported \in {Absent, Present("failed")}

====
